---------------------------- MODULE Spec2Model ----------------------------
(***************************************************************************)
(* Recipe extraction service: the web-path tier orchestrator of            *)
(* lambda_handler, its acceptance gate, quality scorer and merge engine    *)
(* (src/lambda-package-filtered/lambda_function.py).                       *)
(*                                                                         *)
(* Text is a sequence of one-character strings, so that the substring,     *)
(* prefix and lower-casing tests of the code are computed, not assumed.    *)
(* Scores and confidences are exact integers: a confidence c is written    *)
(* 1000*c and a score s is written 100000*s.  For the thresholds used      *)
(* here (0.60 and 0.70) the float comparisons of the code agree with the   *)
(* exact ones on every confidence combination the code can produce.        *)
(***************************************************************************)
EXTENDS Integers, Sequences, FiniteSets, TLC

-----------------------------------------------------------------------------
(* Text literals *)

\* is_bot_wall bot_phrases: 'please verify you are a human', 'are you a robot', 'cloudflare', 'attention required', 'blocked', 'access denied'
bot_phrases ==
  << <<"p","l","e","a","s","e"," ","v","e","r","i","f","y"," ","y","o","u"," ","a","r","e"," ","a"," ","h","u","m","a","n">>,
     <<"a","r","e"," ","y","o","u"," ","a"," ","r","o","b","o","t">>,
     <<"c","l","o","u","d","f","l","a","r","e">>,
     <<"a","t","t","e","n","t","i","o","n"," ","r","e","q","u","i","r","e","d">>,
     <<"b","l","o","c","k","e","d">>,
     <<"a","c","c","e","s","s"," ","d","e","n","i","e","d">> >>
\* detect_red_flags blocked content: 'access denied', 'instructions not available', 'blocked'
blocked_phrases ==
  << <<"a","c","c","e","s","s"," ","d","e","n","i","e","d">>,
     <<"i","n","s","t","r","u","c","t","i","o","n","s"," ","n","o","t"," ","a","v","a","i","l","a","b","l","e">>,
     <<"b","l","o","c","k","e","d">> >>
\* detect_red_flags watermarks: 'dotdash', 'meredith', 'food studios'
watermarks ==
  << <<"d","o","t","d","a","s","h">>,
     <<"m","e","r","e","d","i","t","h">>,
     <<"f","o","o","d"," ","s","t","u","d","i","o","s">> >>
\* calculate_field_confidence brands: 'allrecipes', 'food network', 'taste of home'
brands ==
  << <<"a","l","l","r","e","c","i","p","e","s">>,
     <<"f","o","o","d"," ","n","e","t","w","o","r","k">>,
     <<"t","a","s","t","e"," ","o","f"," ","h","o","m","e">> >>
\* calculate_field_confidence logos: 'logo', 'icon', 'favicon'
logos ==
  << <<"l","o","g","o">>,
     <<"i","c","o","n">>,
     <<"f","a","v","i","c","o","n">> >>
\* is_valid_title error_phrases: 'page not found', '404', 'error', 'oops', 'not found', 'access denied', "we can't find", 'we cant find', 'we cannot find', 'not available', 'recipe not found', 'search results', 'default article title'
error_phrases ==
  << <<"p","a","g","e"," ","n","o","t"," ","f","o","u","n","d">>,
     <<"4","0","4">>,
     <<"e","r","r","o","r">>,
     <<"o","o","p","s">>,
     <<"n","o","t"," ","f","o","u","n","d">>,
     <<"a","c","c","e","s","s"," ","d","e","n","i","e","d">>,
     <<"w","e"," ","c","a","n","'","t"," ","f","i","n","d">>,
     <<"w","e"," ","c","a","n","t"," ","f","i","n","d">>,
     <<"w","e"," ","c","a","n","n","o","t"," ","f","i","n","d">>,
     <<"n","o","t"," ","a","v","a","i","l","a","b","l","e">>,
     <<"r","e","c","i","p","e"," ","n","o","t"," ","f","o","u","n","d">>,
     <<"s","e","a","r","c","h"," ","r","e","s","u","l","t","s">>,
     <<"d","e","f","a","u","l","t"," ","a","r","t","i","c","l","e"," ","t","i","t","l","e">> >>
\* is_valid_title placeholders: 'untitled recipe', 'recipe', 'no title'
placeholder_titles ==
  << <<"u","n","t","i","t","l","e","d"," ","r","e","c","i","p","e">>,
     <<"r","e","c","i","p","e">>,
     <<"n","o"," ","t","i","t","l","e">> >>
\* is_likely_hallucination generic_ingredients: 'ingredient', 'item', 'component', 'element'
generic_ingredients ==
  << <<"i","n","g","r","e","d","i","e","n","t">>,
     <<"i","t","e","m">>,
     <<"c","o","m","p","o","n","e","n","t">>,
     <<"e","l","e","m","e","n","t">> >>
https_prefix == <<"h","t","t","p","s",":","/","/">>
sentinel_phrase == <<"i","n","s","t","r","u","c","t","i","o","n","s"," ","n","o","t"," ","a","v","a","i","l","a","b","l","e">>
UntitledRecipe == <<"U","n","t","i","t","l","e","d"," ","R","e","c","i","p","e">>
Upper == <<"A","B","C","D","E","F","G","H","I","J","K","L","M","N","O","P","Q","R","S","T","U","V","W","X","Y","Z">>
LowerAlpha == <<"a","b","c","d","e","f","g","h","i","j","k","l","m","n","o","p","q","r","s","t","u","v","w","x","y","z">>

T_NoInstructions == <<"I","n","s","t","r","u","c","t","i","o","n","s"," ","N","o","t"," ","A","v","a","i","l","a","b","l","e">>
T_Pasta == <<"P","a","s","t","a">>
T_BotWall == <<"P","l","e","a","s","e"," ","v","e","r","i","f","y"," ","y","o","u"," ","a","r","e"," ","a"," ","h","u","m","a","n">>
T_Brand == <<"A","l","l","r","e","c","i","p","e","s"," ","P","a","s","t","a">>
T_Short == <<"a","b">>
T_Cloud == <<"C","l","o","u","d","f","l","a","r","e"," ","C","a","k","e">>
T_LongPasta == <<"F","r","e","s","h"," ","E","g","g"," ","P","a","s","t","a">>
IMG_Https == <<"h","t","t","p","s",":","/","/","e","x","a","m","p","l","e",".","c","o","m","/","p","a","s","t","a",".","j","p","g">>
IMG_Http == <<"h","t","t","p",":","/","/","e","x","a","m","p","l","e",".","c","o","m","/","p","a","s","t","a",".","j","p","g">>
IMG_Logo == <<"h","t","t","p","s",":","/","/","e","x","a","m","p","l","e",".","c","o","m","/","l","o","g","o",".","p","n","g">>
IMG_Other == <<"h","t","t","p","s",":","/","/","c","d","n",".","e","x","a","m","p","l","e",".","c","o","m","/","h","e","r","o",".","j","p","g">>
URL == <<"h","t","t","p","s",":","/","/","e","x","a","m","p","l","e",".","c","o","m","/","r">>
ING_Suffix == <<" ","c","u","p","s"," ","f","l","o","u","r">>
STEP_Prefix == <<"K","n","e","a","d"," ","t","h","e"," ","d","o","u","g","h"," ","f","o","r"," ">>
STEP_Suffix == <<" ","m","i","n","u","t","e","s",".">>
STEP_Sentinel == <<"I","n","s","t","r","u","c","t","i","o","n","s"," ","n","o","t"," ","a","v","a","i","l","a","b","l","e",".">>
STEP_Watermark == <<"R","e","c","i","p","e"," ","b","y"," ","D","o","t","d","a","s","h"," ","M","e","r","e","d","i","t","h"," ","F","o","o","d"," ","S","t","u","d","i","o","s">>
ING_Watermark == <<"1"," ","j","a","r"," ","M","e","r","e","d","i","t","h"," ","s","a","u","c","e">>
DigitChars == <<"0","1","2","3","4","5","6","7","8","9">>
ING_SpoonSuffix == <<" ","t","b","s","p"," ","o","l","i","v","e"," ","o","i","l">>
STEP_SpoonPrefix == <<"S","i","m","m","e","r"," ","t","h","e"," ","s","a","u","c","e"," ","f","o","r"," ">>
ING_AiSuffix == <<" ","l","a","r","g","e"," ","e","g","g","s">>
STEP_AiPrefix == <<"R","o","l","l"," ","t","h","e"," ","s","h","e","e","t","s"," ">>
STEP_AiSuffix == <<" ","t","i","m","e","s",".">>

-----------------------------------------------------------------------------
(* Text operations (Python str methods) *)

\* the lower-case letter of each upper-case letter
LowerMap ==
  [c \in {Upper[i] : i \in 1..Len(Upper)} |-> LowerAlpha[CHOOSE i \in 1..Len(Upper) : Upper[i] = c]]

\* str.lower() on one character
LowerChar(c) == IF c \in DOMAIN LowerMap THEN LowerMap[c] ELSE c

\* str.lower()
lower(s) == [i \in 1..Len(s) |-> LowerChar(s[i])]

\* p in s
Contains(s, p) == \E i \in 0..(Len(s) - Len(p)) : \A j \in 1..Len(p) : s[i + j] = p[j]

\* s.startswith(p)
StartsWith(s, p) == Len(s) >= Len(p) /\ \A j \in 1..Len(p) : s[j] = p[j]

\* any(p in s for p in phrases)
ContainsAny(s, phrases) == \E k \in 1..Len(phrases) : Contains(s, phrases[k])

RECURSIVE lstrip(_)
lstrip(s) == IF s # <<>> /\ Head(s) = " " THEN lstrip(Tail(s)) ELSE s

RECURSIVE rstrip(_)
rstrip(s) == IF s # <<>> /\ s[Len(s)] = " " THEN rstrip(SubSeq(s, 1, Len(s) - 1)) ELSE s

\* str.strip()
strip(s) == rstrip(lstrip(s))

\* ' '.join(items)
RECURSIVE JoinSpace(_)
JoinSpace(items) ==
  IF items = <<>> THEN <<>>
  ELSE IF Len(items) = 1 THEN items[1]
  ELSE items[1] \o <<" ">> \o JoinSpace(Tail(items))

\* str(n) for n >= 0
RECURSIVE NumStr(_)
NumStr(n) == IF n < 10 THEN <<DigitChars[n + 1]>> ELSE NumStr(n \div 10) \o <<DigitChars[(n % 10) + 1]>>

-----------------------------------------------------------------------------
(* Values *)

\* Python None for the numeric fields (servings and the times)
NoneVal == 0 - 1

\* bool(v) of a numeric field: None and 0 are falsy
Truthy(v) == v # NoneVal /\ v # 0

\* bool(s) of a text or list field: '' and [] are falsy (an absent key reads as '' or [])
NonEmpty(s) == s # <<>>

-----------------------------------------------------------------------------
(* Bot-wall and title checks *)

\* is_bot_wall(content_or_title)
is_bot_wall(title) == ContainsAny(lower(title), bot_phrases)

\* is_valid_title(title)
is_valid_title(title) ==
  LET title_lower == strip(lower(title)) IN
  IF ~NonEmpty(title) THEN FALSE
  ELSE IF ContainsAny(title_lower, error_phrases) THEN FALSE
  ELSE IF Len(title_lower) < 3 THEN FALSE
  ELSE IF \E k \in 1..Len(placeholder_titles) : title_lower = placeholder_titles[k] THEN FALSE
  ELSE TRUE

-----------------------------------------------------------------------------
(* Quality scorer *)

\* generic_count of is_likely_hallucination
generic_count(ingredients) ==
  Cardinality({i \in 1..Len(ingredients) : ContainsAny(lower(ingredients[i]), generic_ingredients)})

\* is_likely_hallucination without the rule on exactly 20 ingredients
is_likely_hallucination_no_padding_rule(r) ==
  IF NonEmpty(r.ingredients) /\ 10 * generic_count(r.ingredients) > 3 * Len(r.ingredients) THEN TRUE
  ELSE IF ~is_valid_title(r.title) THEN TRUE
  ELSE FALSE

\* is_likely_hallucination(recipe_data)
is_likely_hallucination(r) ==
  IF Len(r.ingredients) = 20 THEN TRUE
  ELSE IF NonEmpty(r.ingredients) /\ 10 * generic_count(r.ingredients) > 3 * Len(r.ingredients) THEN TRUE
  ELSE IF ~is_valid_title(r.title) THEN TRUE
  ELSE FALSE

\* calculate_quality_score paying 0.15 for one or two ingredients and nothing for more
calculate_quality_score_few_only(r) ==
  IF ~is_valid_title(r.title) THEN 0
  ELSE IF is_likely_hallucination(r) THEN 0
  ELSE
    LET title_part  == IF NonEmpty(r.title) /\ r.title # UntitledRecipe THEN 20000 ELSE 0
        ingr_part   == IF Len(r.ingredients) >= 3 THEN 0
                       ELSE IF Len(r.ingredients) >= 1 THEN 15000 ELSE 0
        instr_part  == IF Len(r.instructions) >= 3 THEN 30000
                       ELSE IF Len(r.instructions) >= 1 THEN 15000 ELSE 0
        image_part  == IF NonEmpty(r.image) THEN 10000 ELSE 0
        serv_part   == IF Truthy(r.servings) THEN 5000 ELSE 0
        prep_part   == IF Truthy(r.prep_time) THEN 5000 ELSE 0
        score       == title_part + ingr_part + instr_part + image_part + serv_part + prep_part
    IN IF score < 100000 THEN score ELSE 100000

\* calculate_quality_score(recipe_data), in units of 1/100000
calculate_quality_score(r) ==
  IF ~is_valid_title(r.title) THEN 0
  ELSE IF is_likely_hallucination(r) THEN 0
  ELSE
    LET title_part  == IF NonEmpty(r.title) /\ r.title # UntitledRecipe THEN 20000 ELSE 0
        ingr_part   == IF Len(r.ingredients) >= 3 THEN 30000
                       ELSE IF Len(r.ingredients) >= 1 THEN 15000 ELSE 0
        instr_part  == IF Len(r.instructions) >= 3 THEN 30000
                       ELSE IF Len(r.instructions) >= 1 THEN 15000 ELSE 0
        image_part  == IF NonEmpty(r.image) THEN 10000 ELSE 0
        serv_part   == IF Truthy(r.servings) THEN 5000 ELSE 0
        prep_part   == IF Truthy(r.prep_time) THEN 5000 ELSE 0
        score       == title_part + ingr_part + instr_part + image_part + serv_part + prep_part
    IN IF score < 100000 THEN score ELSE 100000

-----------------------------------------------------------------------------
(* Schema validation of a generative payload *)

\* validate_or_explain without the rule on the image URL
validate_or_explain_no_image_rule(p) ==
  IF ~NonEmpty(p.title) \/ Len(p.title) < 3 \/ Len(p.title) > 200
    THEN [ok |-> FALSE, error |-> "title must be 3-200 characters"]
  ELSE IF ~Truthy(p.servings) \/ p.servings < 1
    THEN [ok |-> FALSE, error |-> "servings must be integer >= 1"]
  ELSE IF ~NonEmpty(p.ingredients)
    THEN [ok |-> FALSE, error |-> "ingredients must be non-empty list"]
  ELSE IF ~NonEmpty(p.instructions)
    THEN [ok |-> FALSE, error |-> "instructions must be non-empty list"]
  ELSE [ok |-> TRUE, error |-> ""]

\* validate_or_explain(payload): the (is_valid, error) pair
validate_or_explain(p) ==
  IF ~NonEmpty(p.title) \/ Len(p.title) < 3 \/ Len(p.title) > 200
    THEN [ok |-> FALSE, error |-> "title must be 3-200 characters"]
  ELSE IF ~Truthy(p.servings) \/ p.servings < 1
    THEN [ok |-> FALSE, error |-> "servings must be integer >= 1"]
  ELSE IF ~NonEmpty(p.image) \/ ~StartsWith(p.image, https_prefix)
    THEN [ok |-> FALSE, error |-> "image must be https URL"]
  ELSE IF ~NonEmpty(p.site_link) \/ ~StartsWith(p.site_link, https_prefix)
    THEN [ok |-> FALSE, error |-> "site_link must be https URL"]
  ELSE IF ~NonEmpty(p.ingredients)
    THEN [ok |-> FALSE, error |-> "ingredients must be non-empty list"]
  ELSE IF ~NonEmpty(p.instructions)
    THEN [ok |-> FALSE, error |-> "instructions must be non-empty list"]
  ELSE IF \E i \in 1..Len(p.ingredients) : Len(p.ingredients[i]) < 3 \/ Len(p.ingredients[i]) > 220
    THEN [ok |-> FALSE, error |-> "ingredient must be 3-220 characters"]
  ELSE IF \E i \in 1..Len(p.instructions) : Len(p.instructions[i]) < 1 \/ Len(p.instructions[i]) > 500
    THEN [ok |-> FALSE, error |-> "instruction must be 1-500 characters"]
  ELSE [ok |-> TRUE, error |-> ""]

-----------------------------------------------------------------------------
(* Field confidence, red flags and the acceptance gate *)

\* base_conf of calculate_field_confidence, in units of 1/1000
base_conf(tier) ==
  IF tier = "deterministic"
    THEN [title |-> 900, image |-> 900, ingredients |-> 800, instructions |-> 800,
          servings |-> 700, total_time |-> 700]
  ELSE IF tier = "spoonacular"
    THEN [title |-> 800, image |-> 800, ingredients |-> 750, instructions |-> 600,
          servings |-> 700, total_time |-> 600]
  ELSE [title |-> 700, image |-> 700, ingredients |-> 700, instructions |-> 700,
        servings |-> 700, total_time |-> 700]

\* base_score * f for f in {0.3, 0.5, 0.7} (tenths)
scaled(base_score, tenths) == (base_score * tenths) \div 10

\* calculate_field_confidence(recipe_data, tier)
calculate_field_confidence(r, tier) ==
  LET b == base_conf(tier) IN
  [title |->
     IF ~NonEmpty(r.title) \/ r.title = UntitledRecipe THEN 0
     ELSE IF Len(r.title) < 3 \/ Len(r.title) > 200 THEN scaled(b.title, 5)
     ELSE IF ContainsAny(lower(r.title), brands) THEN scaled(b.title, 7)
     ELSE b.title,
   image |->
     IF ~NonEmpty(r.image) \/ ~StartsWith(r.image, https_prefix) THEN 0
     ELSE IF ContainsAny(lower(r.image), logos) THEN scaled(b.image, 3)
     ELSE b.image,
   ingredients |->
     IF Len(r.ingredients) < 4 THEN scaled(b.ingredients, 3)
     ELSE IF Len(r.ingredients) < 8 THEN scaled(b.ingredients, 7)
     ELSE b.ingredients,
   instructions |->
     IF Len(r.instructions) < 4 THEN scaled(b.instructions, 3)
     ELSE IF Len(r.instructions) < 6 THEN scaled(b.instructions, 7)
     ELSE b.instructions,
   servings |->
     IF ~Truthy(r.servings) \/ r.servings < 1 THEN scaled(b.servings, 5)
     ELSE b.servings,
   total_time |->
     IF ~Truthy(r.total_time) THEN scaled(b.total_time, 5)
     ELSE b.total_time]

\* detect_red_flags(recipe_data): the set of flags raised
detect_red_flags(r) ==
  LET all_text == lower(JoinSpace(r.ingredients \o r.instructions)) IN
    (IF is_bot_wall(r.title) THEN {"bot_wall"} ELSE {})
    \cup (IF ContainsAny(lower(r.title), blocked_phrases) THEN {"blocked_content"} ELSE {})
    \cup (IF Len(r.ingredients) < 3 THEN {"insufficient_ingredients"} ELSE {})
    \cup (IF Len(r.instructions) < 3 THEN {"insufficient_instructions"}
          ELSE IF \E i \in 1..Len(r.instructions) :
                    Contains(lower(r.instructions[i]), sentinel_phrase)
            THEN {"insufficient_instructions"} ELSE {})
    \cup (IF ContainsAny(all_text, watermarks) THEN {"watermarks"} ELSE {})
    \cup (IF Len(r.instructions) = 1 THEN {"single_step"} ELSE {})

\* calculate_weighted_score with the image weighted 0.05 instead of 0.15
calculate_weighted_score_light_image(confidences) ==
  confidences.title * 15 + confidences.image * 5 + confidences.ingredients * 30
    + confidences.instructions * 30 + confidences.servings * 5 + confidences.total_time * 5

\* calculate_weighted_score(recipe_data, confidences), in units of 1/100000
calculate_weighted_score(confidences) ==
  confidences.title * 15 + confidences.image * 15 + confidences.ingredients * 30
    + confidences.instructions * 30 + confidences.servings * 5 + confidences.total_time * 5

\* should_accept_tier with the threshold test off by one: a score equal to the minimum is rejected
should_accept_tier_strict(r, tier, min_trigger_score) ==
  LET weighted_score == calculate_weighted_score(calculate_field_confidence(r, tier))
  IN IF r.metadata.bot_wall_detected
       THEN [accepted |-> FALSE, reason |-> "bot_wall_detected", score |-> weighted_score]
     ELSE IF is_bot_wall(r.title)
       THEN [accepted |-> FALSE, reason |-> "bot_wall_title", score |-> weighted_score]
     ELSE IF detect_red_flags(r) # {}
       THEN [accepted |-> FALSE, reason |-> "red_flags", score |-> weighted_score]
     ELSE IF weighted_score <= min_trigger_score
       THEN [accepted |-> FALSE, reason |-> "low_score", score |-> weighted_score]
     ELSE [accepted |-> TRUE, reason |-> "ok", score |-> weighted_score]

\* should_accept_tier(recipe_data, tier, min_trigger_score)
should_accept_tier(r, tier, min_trigger_score) ==
  LET confidences    == calculate_field_confidence(r, tier)
      weighted_score == calculate_weighted_score(confidences)
      red_flags      == detect_red_flags(r)
  IN IF r.metadata.bot_wall_detected
       THEN [accepted |-> FALSE, reason |-> "bot_wall_detected", score |-> weighted_score]
     ELSE IF is_bot_wall(r.title)
       THEN [accepted |-> FALSE, reason |-> "bot_wall_title", score |-> weighted_score]
     ELSE IF red_flags # {}
       THEN [accepted |-> FALSE, reason |-> "red_flags", score |-> weighted_score]
     ELSE IF weighted_score < min_trigger_score
       THEN [accepted |-> FALSE, reason |-> "low_score", score |-> weighted_score]
     ELSE [accepted |-> TRUE, reason |-> "ok", score |-> weighted_score]

-----------------------------------------------------------------------------
(* Merge engine *)

\* merge_spoonacular_results taking the Spoonacular list on a tie of lengths
merge_spoonacular_results_tie_to_spoon(det, spoon) ==
  LET ingredients  == IF Len(spoon.ingredients) >= Len(det.ingredients)
                        THEN spoon.ingredients ELSE det.ingredients
      instructions == IF Len(spoon.instructions) >= Len(det.instructions)
                        THEN spoon.instructions ELSE det.instructions
  IN [det EXCEPT
        !.ingredients  = ingredients,
        !.instructions = instructions,
        !.title      = IF (~NonEmpty(det.title) \/ det.title = UntitledRecipe) /\ NonEmpty(spoon.title)
                         THEN spoon.title ELSE @,
        !.image      = IF ~NonEmpty(@) /\ NonEmpty(spoon.image) THEN spoon.image ELSE @,
        !.servings   = IF ~Truthy(@) /\ Truthy(spoon.servings) THEN spoon.servings ELSE @,
        !.prep_time  = IF ~Truthy(@) /\ Truthy(spoon.prep_time) THEN spoon.prep_time ELSE @,
        !.cook_time  = IF ~Truthy(@) /\ Truthy(spoon.cook_time) THEN spoon.cook_time ELSE @,
        !.total_time = IF ~Truthy(@) /\ Truthy(spoon.total_time) THEN spoon.total_time ELSE @,
        !.metadata.full_recipe = Len(ingredients) >= 3 /\ Len(instructions) >= 3]

\* merge_spoonacular_results(deterministic_result, spoonacular_result)
merge_spoonacular_results(det, spoon) ==
  LET ingredients  == IF Len(spoon.ingredients) > Len(det.ingredients)
                        THEN spoon.ingredients ELSE det.ingredients
      instructions == IF Len(spoon.instructions) > Len(det.instructions)
                        THEN spoon.instructions ELSE det.instructions
  IN [det EXCEPT
        !.ingredients  = ingredients,
        !.instructions = instructions,
        !.title      = IF (~NonEmpty(det.title) \/ det.title = UntitledRecipe) /\ NonEmpty(spoon.title)
                         THEN spoon.title ELSE @,
        !.image      = IF ~NonEmpty(@) /\ NonEmpty(spoon.image) THEN spoon.image ELSE @,
        !.servings   = IF ~Truthy(@) /\ Truthy(spoon.servings) THEN spoon.servings ELSE @,
        !.prep_time  = IF ~Truthy(@) /\ Truthy(spoon.prep_time) THEN spoon.prep_time ELSE @,
        !.cook_time  = IF ~Truthy(@) /\ Truthy(spoon.cook_time) THEN spoon.cook_time ELSE @,
        !.total_time = IF ~Truthy(@) /\ Truthy(spoon.total_time) THEN spoon.total_time ELSE @,
        !.metadata.full_recipe = Len(ingredients) >= 3 /\ Len(instructions) >= 3]

\* the fields the patch-only merge walks over, in the code's order
PatchFields ==
  <<"title", "image", "ingredients", "instructions", "servings", "prep_time", "cook_time", "total_time">>

\* bool(value) for the value of a named field
FieldTruthy(field, v) ==
  IF field \in {"servings", "prep_time", "cook_time", "total_time"} THEN Truthy(v) ELSE NonEmpty(v)

\* base_confidences.get(field, 0.0)
ConfGet(confidences, field) == IF field \in DOMAIN confidences THEN confidences[field] ELSE 0

\* PatchField taking a list that is exactly 20% longer for significantly better
PatchField_at_least_20(field, base_value, ai_value, base_confidence) ==
  IF ~FieldTruthy(field, base_value) \/ base_confidence < 500
    THEN IF FieldTruthy(field, ai_value) THEN ai_value ELSE base_value
  ELSE IF base_confidence >= 800
    THEN IF FieldTruthy(field, ai_value) /\ field \in {"ingredients", "instructions"}
              /\ 5 * Len(ai_value) >= 6 * Len(base_value)
           THEN ai_value ELSE base_value
  ELSE IF FieldTruthy(field, ai_value)
    THEN IF field = "title"
           THEN IF Len(ai_value) > Len(base_value) THEN ai_value ELSE base_value
         ELSE IF field = "image"
           THEN IF StartsWith(ai_value, https_prefix) THEN ai_value ELSE base_value
         ELSE ai_value
  ELSE base_value

\* PatchField keeping the base value of every medium-confidence field but title and image
PatchField_keeps_medium(field, base_value, ai_value, base_confidence) ==
  IF ~FieldTruthy(field, base_value) \/ base_confidence < 500
    THEN IF FieldTruthy(field, ai_value) THEN ai_value ELSE base_value
  ELSE IF base_confidence >= 800
    THEN IF FieldTruthy(field, ai_value) /\ field \in {"ingredients", "instructions"}
              /\ 5 * Len(ai_value) > 6 * Len(base_value)
           THEN ai_value ELSE base_value
  ELSE IF FieldTruthy(field, ai_value)
    THEN IF field = "title"
           THEN IF Len(ai_value) > Len(base_value) THEN ai_value ELSE base_value
         ELSE IF field = "image"
           THEN IF StartsWith(ai_value, https_prefix) THEN ai_value ELSE base_value
         ELSE base_value
  ELSE base_value

\* one iteration of the loop of merge_ai_results_patch_only: the merged value of `field`
PatchField(field, base_value, ai_value, base_confidence) ==
  IF ~FieldTruthy(field, base_value) \/ base_confidence < 500
    THEN IF FieldTruthy(field, ai_value) THEN ai_value ELSE base_value
  ELSE IF base_confidence >= 800
    THEN IF FieldTruthy(field, ai_value) /\ field \in {"ingredients", "instructions"}
              /\ 5 * Len(ai_value) > 6 * Len(base_value)
           THEN ai_value ELSE base_value
  ELSE IF FieldTruthy(field, ai_value)
    THEN IF field = "title"
           THEN IF Len(ai_value) > Len(base_value) THEN ai_value ELSE base_value
         ELSE IF field = "image"
           THEN IF StartsWith(ai_value, https_prefix) THEN ai_value ELSE base_value
         ELSE ai_value
  ELSE base_value

\* merge_ai_results_patch_only(base_result, ai_result, base_confidences)
merge_ai_results_patch_only(base, ai, base_confidences) ==
  [f \in DOMAIN base |->
     IF \E k \in 1..Len(PatchFields) : PatchFields[k] = f
       THEN PatchField(f, base[f], ai[f], ConfGet(base_confidences, f))
       ELSE base[f]]

-----------------------------------------------------------------------------
(* Records and the inputs of one request *)

\* Optional values: Python None is <<>>, a value v is <<v>>
None == <<>>
Some(v) == <<v>>

\* metadata of a freshly built record: no tier_used, no flags
EmptyMetadata ==
  [tier_used |-> "", full_recipe |-> FALSE, bot_wall_detected |-> FALSE, ai_error |-> ""]

\* a candidate record (the dict every tier passes on)
Recipe(title, ingredients, instructions, image, servings, prep_time, cook_time, total_time) ==
  [title |-> title, ingredients |-> ingredients, instructions |-> instructions,
   image |-> image, servings |-> servings, prep_time |-> prep_time, cook_time |-> cook_time,
   total_time |-> total_time, site_link |-> URL, quality_score |-> 0,
   metadata |-> EmptyMetadata]

\* what a step starts with: '', 'Mix. ', 'Stir. ', ... (no two of the same length, so
\* that no two steps of a list are near-duplicates for the finalizer)
StepLeads ==
  << <<>>,
     <<"M","i","x","."," ">>,
     <<"S","t","i","r","."," ">>,
     <<"W","h","i","s","k","."," ">>,
     <<"S","e","a","s","o","n","."," ">>,
     <<"C","o","o","l"," ","i","t","."," ">>,
     <<"T","a","s","t","e"," ","i","t","."," ">>,
     <<"C","o","v","e","r"," ","p","a","n","."," ">>,
     <<"R","e","d","u","c","e"," ","h","e","a","t","."," ">>,
     <<"P","r","e","h","e","a","t"," ","o","v","e","n","."," ">> >>

\* n distinct page ingredients / n distinct page steps of more than 20 characters
Ingredients(n, suffix) == [i \in 1..n |-> NumStr(i) \o suffix]
Steps(n, prefix, suffix) ==
  [i \in 1..n |-> StepLeads[((i - 1) % Len(StepLeads)) + 1] \o prefix \o NumStr(i) \o suffix]

\* the result dict of extract_recipe_data: metadata.full_recipe is set, cook_time is ''
DetRecipe(title, nIng, nSteps, image, servings, times) ==
  [Recipe(title, Ingredients(nIng, ING_Suffix), Steps(nSteps, STEP_Prefix, STEP_Suffix),
          image, servings, times[1], 0, times[2])
     EXCEPT !.metadata.full_recipe = (nIng >= 3 /\ nSteps >= 3)]

\* (prep_time, total_time) of a page without and with times ('' reads as 0)
NoTimes == <<NoneVal, 0>>
PageTimes == <<15, 45>>

\* (ingredients, instructions) list lengths of the parsed pages
DetShapes == {<<0, 0>>, <<2, 1>>, <<3, 3>>, <<5, 4>>, <<8, 6>>}

\* what extract_recipe_data can return for the pages of the model
DetCandidates ==
  {DetRecipe(T_Pasta, s[1], s[2], img, sv, tt) :
      s \in DetShapes, img \in {<<>>, IMG_Https}, sv \in {NoneVal, 4}, tt \in {NoTimes, PageTimes}}
  \cup {DetRecipe(UntitledRecipe, s[1], s[2], <<>>, NoneVal, NoTimes) : s \in {<<0, 0>>, <<3, 3>>}}
  \cup {DetRecipe(T_BotWall, s[1], s[2], IMG_Https, 4, PageTimes) : s \in {<<0, 0>>, <<5, 4>>}}
  \cup {DetRecipe(T_Brand, 5, 4, img, 4, PageTimes) : img \in {IMG_Https, IMG_Logo}}
  \cup {DetRecipe(T_Cloud, 5, 4, IMG_Https, 4, PageTimes)}
  \cup {[DetRecipe(T_Pasta, 8, 6, IMG_Https, 4, PageTimes)
           EXCEPT !.instructions = Append(Steps(5, STEP_Prefix, STEP_Suffix), STEP_Watermark)],
        [DetRecipe(T_Pasta, 5, 4, IMG_Https, 4, PageTimes)
           EXCEPT !.instructions = Append(Steps(3, STEP_Prefix, STEP_Suffix), STEP_Sentinel)]}

\* the JSON bodies the extraction API answers with (status 200), already in our field names
SpoonData ==
  {Recipe(T_LongPasta, Ingredients(9, ING_SpoonSuffix), Steps(7, STEP_SpoonPrefix, STEP_Suffix),
          IMG_Other, 6, 15, 35, 50),
   Recipe(T_Pasta, Ingredients(4, ING_SpoonSuffix), Steps(3, STEP_SpoonPrefix, STEP_Suffix),
          <<>>, NoneVal, NoneVal, NoneVal, NoneVal),
   Recipe(<<>>, <<>>, <<>>, <<>>, NoneVal, NoneVal, NoneVal, NoneVal)}

\* the outcomes of one call of the extraction API
SpoonOutcomes ==
  {[kind |-> k, data |-> None] : k \in {"timeout", "api_error", "exception"}}
  \cup {[kind |-> "ok", data |-> Some(d)] : d \in SpoonData}

\* the JSON objects the generative model answers with
AiValid ==
  Recipe(T_LongPasta, Ingredients(10, ING_AiSuffix), Steps(8, STEP_AiPrefix, STEP_AiSuffix),
         IMG_Other, 4, 20, 40, 60)
AiInvalidImage ==
  Recipe(T_LongPasta, Ingredients(4, ING_AiSuffix), Steps(3, STEP_AiPrefix, STEP_AiSuffix),
         IMG_Http, 4, 20, 40, 60)
AiInvalidTitle ==
  Recipe(T_Short, Ingredients(2, ING_AiSuffix), <<>>, <<>>, NoneVal, NoneVal, NoneVal, NoneVal)

\* the outcomes of one request to the generative model
AiOutcomes(payloads) ==
  {[kind |-> k, data |-> None] : k \in {"timeout", "api_error", "empty", "unparseable"}}
  \cup {[kind |-> "parsed", data |-> Some(d)] : d \in payloads}

\* the environment of the process: feature flags, threshold, credentials
Configs ==
  {[ai_enabled |-> a, spoon_enabled |-> s, min_trigger_score |-> m,
    spoon_api_key |-> k, openai_api_key |-> k] :
      a \in BOOLEAN, s \in BOOLEAN, m \in {60000, 70000}, k \in BOOLEAN}

-----------------------------------------------------------------------------
(* Finalizer: text normalisation of finalize_response *)

\* character classes of the regular expressions (the texts here are ASCII; \s is the space)
Digits == {DigitChars[i] : i \in 1..Len(DigitChars)}
UpperLetters == {Upper[i] : i \in 1..Len(Upper)}
LowerLetters == {LowerAlpha[i] : i \in 1..Len(LowerAlpha)}
Letters == UpperLetters \cup LowerLetters
Spaces == {" "}

\* number of consecutive characters of s from position i on that are in cs
Span(s, i, cs) ==
  IF i > Len(s) THEN 0
  ELSE (CHOOSE j \in i..(Len(s) + 1) :
          (j = Len(s) + 1 \/ s[j] \notin cs) /\ \A k \in i..(j - 1) : s[k] \in cs) - i

\* number of consecutive characters of s from position i on that are not in cs
SpanNot(s, i, cs) ==
  IF i > Len(s) THEN 0
  ELSE (CHOOSE j \in i..(Len(s) + 1) :
          (j = Len(s) + 1 \/ s[j] \in cs) /\ \A k \in i..(j - 1) : s[k] \notin cs) - i

\* number of consecutive characters of s in cs that end just before position i
SpanBack(s, i, cs) ==
  i - 1 - (CHOOSE j \in 0..(i - 1) :
             (j = 0 \/ s[j] \notin cs) /\ \A k \in (j + 1)..(i - 1) : s[k] \in cs)

\* s[i:] and s[:n]
From(s, i) == SubSeq(s, i, Len(s))
Take(s, n) == IF Len(s) <= n THEN s ELSE SubSeq(s, 1, n)

\* s.endswith(p)
EndsWith(s, p) == Len(s) >= Len(p) /\ \A j \in 1..Len(p) : s[Len(s) - Len(p) + j] = p[j]

\* re.sub(r'\s{2,}', ' ', s) and re.sub(r'\s+', ' ', s): every run of spaces becomes one space
collapse_spaces(s) ==
  LET pairs == [i \in 1..Len(s) |-> <<s[i], IF i > 1 THEN s[i - 1] ELSE "">>]
      kept == SelectSeq(pairs, LAMBDA p : ~(p[1] = " " /\ p[2] = " "))
  IN [i \in 1..Len(kept) |-> kept[i][1]]

\* the first position of p in s (0 when p is not in s)
Find(s, p) ==
  IF Contains(s, p)
    THEN CHOOSE i \in 1..(Len(s) - Len(p) + 1) :
           /\ \A j \in 1..Len(p) : s[i + j - 1] = p[j]
           /\ \A h \in 1..(i - 1) : \E j \in 1..Len(p) : s[h + j - 1] # p[j]
    ELSE 0

\* s.replace(p, r) for a non-empty p: the occurrences of p from the left, not overlapping
RECURSIVE Replace(_, _, _)
Replace(s, p, r) ==
  LET i == Find(s, p)
  IN IF i = 0 THEN s
     ELSE Take(s, i - 1) \o r \o Replace(From(s, i + Len(p)), p, r)

\* LIST_PREFIX.sub("", s) on a stripped s: a leading '12.' or '3)' or a leading '-' or '*' bullet
strip_list_prefix(s) ==
  LET d == Span(s, 1, Digits)
      k == Span(s, d + 1, Spaces)
  IN IF d >= 1 /\ d + k + 1 <= Len(s) /\ s[d + k + 1] \in {".", ")"}
       THEN From(s, d + k + 2 + Span(s, d + k + 2, Spaces))
     ELSE IF s # <<>> /\ s[1] \in {"-", "*"} /\ Span(s, 2, Spaces) >= 1
       THEN From(s, 2 + Span(s, 2, Spaces))
     ELSE s

\* _normalize_text(s) of finalize_response
normalize_text(s) == strip(collapse_spaces(strip_list_prefix(strip(s))))

\* unit_words_needing_one of _normalize_ingredient_quantity
unit_words_needing_one ==
  {<<"c","u","p">>,
   <<"c","u","p","s">>,
   <<"t","e","a","s","p","o","o","n">>,
   <<"t","e","a","s","p","o","o","n","s">>,
   <<"t","s","p">>,
   <<"t","a","b","l","e","s","p","o","o","n">>,
   <<"t","a","b","l","e","s","p","o","o","n","s">>,
   <<"t","b","s","p">>,
   <<"p","o","u","n","d">>,
   <<"p","o","u","n","d","s">>,
   <<"l","b">>,
   <<"l","b","s">>,
   <<"o","u","n","c","e">>,
   <<"o","u","n","c","e","s">>,
   <<"o","z">>,
   <<"p","i","n","t">>,
   <<"p","i","n","t","s">>,
   <<"p","t">>,
   <<"q","u","a","r","t">>,
   <<"q","u","a","r","t","s">>,
   <<"q","t">>,
   <<"g","a","l","l","o","n">>,
   <<"g","a","l","l","o","n","s">>,
   <<"g","a","l">>,
   <<"p","i","n","c","h">>,
   <<"d","a","s","h">>,
   <<"h","a","n","d","f","u","l">>,
   <<"s","l","i","c","e">>,
   <<"s","l","i","c","e","s">>,
   <<"p","i","e","c","e">>,
   <<"p","i","e","c","e","s">>,
   <<"c","l","o","v","e">>,
   <<"c","l","o","v","e","s">>,
   <<"s","p","r","i","g">>,
   <<"s","p","r","i","g","s">>,
   <<"b","u","n","c","h">>,
   <<"b","u","n","c","h","e","s">>,
   <<"c","a","n">>,
   <<"c","a","n","s">>,
   <<"p","a","c","k","a","g","e">>,
   <<"p","a","c","k","a","g","e","s">>,
   <<"p","k","g">>,
   <<"j","a","r">>,
   <<"j","a","r","s">>,
   <<"b","o","t","t","l","e">>,
   <<"b","o","t","t","l","e","s">>,
   <<"h","e","a","d">>,
   <<"h","e","a","d","s">>,
   <<"s","t","a","l","k">>,
   <<"s","t","a","l","k","s">>,
   <<"s","t","i","c","k">>,
   <<"s","t","i","c","k","s">>}

\* s.split()[0] of a stripped s: the text before the first space
first_token(s) ==
  IF \E i \in 1..Len(s) : s[i] = " "
    THEN Take(s, (CHOOSE i \in 1..Len(s) : s[i] = " " /\ \A j \in 1..(i - 1) : s[j] # " ") - 1)
    ELSE s

\* re.match(number_pattern, s): digits, a fraction 1/2 or a decimal 1.5, then a space
starts_with_number(s) ==
  LET d == Span(s, 1, Digits)
      e == Span(s, d + 2, Digits)
  IN /\ d >= 1
     /\ \/ Span(s, d + 1, Spaces) >= 1
        \/ /\ d + 1 <= Len(s) /\ s[d + 1] \in {"/", "."}
           /\ e >= 1
           /\ Span(s, d + e + 2, Spaces) >= 1

\* _normalize_ingredient_quantity(ingredient): '1 ' is put before a leading unit word
with_quantity(ingredient, ingredient_clean, ingredient_lower) ==
  IF Len(ingredient_clean) < 3 THEN ingredient
  ELSE IF starts_with_number(ingredient_lower) THEN ingredient_clean
  ELSE IF first_token(ingredient_lower) \in unit_words_needing_one
    THEN <<"1", " ">> \o ingredient_clean
  ELSE ingredient_clean

normalize_ingredient_quantity(ingredient) ==
  with_quantity(ingredient, strip(ingredient), lower(strip(ingredient)))

\* the ingredient loop of finalize_response: normalise, drop texts of 2 characters or
\* fewer and texts already seen (compared in lower case)
normalized_ingredients(items) ==
  [i \in 1..Len(items) |-> normalize_ingredient_quantity(normalize_text(items[i]))]

\* c[i] is kept: more than 2 characters and not seen before in lower case
kept_ingredient(c, i) ==
  Len(c[i]) > 2 /\ \A j \in 1..(i - 1) : lower(c[j]) # lower(c[i])

\* the first members of the marked pairs of a list
unmarked(kept) == [i \in 1..Len(kept) |-> kept[i][1]]

clean_ingredients(items) ==
  LET c == normalized_ingredients(items)
  IN unmarked(SelectSeq([i \in 1..Len(items) |-> <<c[i], kept_ingredient(c, i)>>],
                        LAMBDA m : m[2]))

-----------------------------------------------------------------------------
(* Finalizer: de-duplication of the instructions and removal of editorial credits *)

\* the text a step is compared by: lower case, no leading '3.' or '3)', single spaces,
\* no trailing punctuation
\* s without its trailing characters that are in cs
rstrip_chars(s, cs) == Take(s, Len(s) - SpanBack(s, Len(s) + 1, cs))

unnumbered(low) ==
  LET d == Span(low, 1, Digits)
  IN IF d >= 1 /\ d + 1 <= Len(low) /\ low[d + 1] \in {".", ")"}
       THEN From(low, d + 2 + Span(low, d + 2, Spaces))
       ELSE low

comparison_text(c) ==
  rstrip_chars(strip(collapse_spaces(unnumbered(strip(lower(c))))),
               {".", ",", ";", ":", "!", "?"})

\* sum(1 for a, b in zip(normalized, seen) if a == b)
common_chars(a, b) ==
  LET n == IF Len(a) < Len(b) THEN Len(a) ELSE Len(b)
  IN Cardinality({i \in 1..n : a[i] = b[i]})

\* the duplicate test of one step against one step already kept: equal, one contained in
\* the other (texts of more than 20 characters), or more than 85% equal position by position
is_duplicate_of(normalized, seen) ==
  LET longer == IF Len(normalized) > Len(seen) THEN Len(normalized) ELSE Len(seen)
      diff == IF Len(normalized) > Len(seen) THEN Len(normalized) - Len(seen)
              ELSE Len(seen) - Len(normalized)
  IN \/ normalized = seen
     \/ Len(normalized) > 20 /\ Contains(seen, normalized)
     \/ Len(seen) > 20 /\ Contains(normalized, seen)
     \/ /\ diff < 10
        /\ Len(normalized) > 15
        /\ 20 * common_chars(normalized, seen) > 17 * longer

\* the instruction loop of finalize_response: steps of 5 characters or fewer and
\* duplicates of a step already kept are dropped
RECURSIVE kept_steps(_, _, _)
kept_steps(c, normalized, i) ==
  IF i = 0 THEN {}
  ELSE LET seen_steps == kept_steps(c, normalized, i - 1) IN
       IF Len(c[i]) > 5 /\ ~\E j \in seen_steps : is_duplicate_of(normalized[i], normalized[j])
         THEN seen_steps \cup {i}
         ELSE seen_steps

normalized_steps(items) == [i \in 1..Len(items) |-> normalize_text(items[i])]

comparison_texts(c) == [i \in 1..Len(c) |-> comparison_text(c[i])]

\* the steps of c whose position is in keep, in their order
selected_steps(c, keep) ==
  unmarked(SelectSeq([i \in 1..Len(c) |-> <<c[i], i \in keep>>], LAMBDA m : m[2]))

deduplicated_steps(c) == selected_steps(c, kept_steps(c, comparison_texts(c), Len(c)))

clean_steps(items) == deduplicated_steps(normalized_steps(items))

\* watermarks of the editorial pass of finalize_response, in the order they are removed
editorial_watermarks ==
  << <<"D","o","t","d","a","s","h"," ","M","e","r","e","d","i","t","h"," ","F","o","o","d"," ","S","t","u","d","i","o","s">>,
     <<"D","O","T","D","A","S","H"," ","M","E","R","E","D","I","T","H"," ","F","O","O","D"," ","S","T","U","D","I","O","S">>,
     <<"."," ","D","o","t","d","a","s","h"," ","M","e","r","e","d","i","t","h"," ","F","o","o","d"," ","S","t","u","d","i","o","s">>,
     <<","," ","D","o","t","d","a","s","h"," ","M","e","r","e","d","i","t","h"," ","F","o","o","d"," ","S","t","u","d","i","o","s">>,
     <<"M","e","r","e","d","i","t","h"," ","F","o","o","d"," ","S","t","u","d","i","o">>,
     <<"M","E","R","E","D","I","T","H"," ","F","O","O","D"," ","S","T","U","D","I","O">>,
     <<"."," ","M","e","r","e","d","i","t","h"," ","F","o","o","d"," ","S","t","u","d","i","o">>,
     <<","," ","M","e","r","e","d","i","t","h"," ","F","o","o","d"," ","S","t","u","d","i","o">>,
     <<"S","e","r","i","o","u","s"," ","E","a","t","s"," ","/"," ","E","r","i","c"," ","K","l","e","i","n","b","e","r","g">>,
     <<"S","e","r","i","o","u","s"," ","E","a","t","s"," ","/"," ","V","i","c","k","y"," ","W","a","s","i","k">> >>

\* site_names of the editorial pass ('bon appétit' cannot occur in an ASCII text)
site_names ==
  << <<"a","l","l","r","e","c","i","p","e","s">>,
     <<"f","o","o","d"," ","n","e","t","w","o","r","k">>,
     <<"t","a","s","t","e"," ","o","f"," ","h","o","m","e">>,
     <<"s","e","r","i","o","u","s"," ","e","a","t","s">> >>

RECURSIVE remove_all(_, _, _)
remove_all(s, phrases, k) ==
  IF k > Len(phrases) \/ s = <<>> THEN s
  ELSE remove_all(Replace(s, phrases[k], <<>>), phrases, k + 1)

\* every character of s from position i on is in cs
AllIn(s, i, cs) == \A j \in i..Len(s) : s[j] \in cs

\* the least element of a non-empty set of positions
Least(S) == CHOOSE i \in S : \A j \in S : i <= j

allrecipes == <<"a","l","l","r","e","c","i","p","e","s">>

\* re.sub(r'\s*Allrecipes\s*/?\s*[A-Za-z\s]+$', '', s, flags=re.IGNORECASE)
\* s cut before position q and the spaces that lead to it
cut_before(s, q) == Take(s, q - 1 - SpanBack(s, q, Spaces))

\* s cut before the least position of Q, s itself when Q is empty
cut_at_first(s, Q) == IF Q = {} THEN s ELSE cut_before(s, Least(Q))

\* from position r on s is '[A-Za-z\s]+' or spaces, '/', spaces and '[A-Za-z\s]+'
allrecipes_slash_fits(s, q) ==
  q <= Len(s) /\ s[q] = "/" /\ q + 1 <= Len(s) /\ AllIn(s, q + 1, Letters \cup Spaces)

allrecipes_tail_fits(s, r) ==
  /\ r <= Len(s)
  /\ \/ AllIn(s, r, Letters \cup Spaces)
     \/ allrecipes_slash_fits(s, r + Span(s, r, Spaces))

is_allrecipes_at(low, q) == \A j \in 1..Len(allrecipes) : low[q + j - 1] = allrecipes[j]

allrecipes_credits(s, low) ==
  {q \in 1..(Len(s) - Len(allrecipes)) :
     is_allrecipes_at(low, q) /\ allrecipes_tail_fits(s, q + Len(allrecipes))}

strip_allrecipes_credit(s) == cut_at_first(s, allrecipes_credits(s, lower(s)))

\* re.sub(r'\s+' + site + r'\s*$', '', s, flags=re.IGNORECASE)
strip_site_at(s, t, site, q) ==
  IF q >= 2 /\ EndsWith(lower(t), site) /\ t[q - 1] = " " THEN cut_before(s, q) ELSE s

strip_trailing_site(s, site) ==
  strip_site_at(s, rstrip(s), site, Len(rstrip(s)) - Len(site) + 1)

RECURSIVE strip_trailing_sites(_, _)
strip_trailing_sites(s, k) ==
  IF k > Len(site_names) \/ s = <<>> THEN s
  ELSE strip_trailing_sites(strip_trailing_site(s, site_names[k]), k + 1)

\* re.sub(r'\s+[A-Z][a-z]+(?:\s*/\s*[A-Z][a-z\s]+)?\s*$', '', s): a capitalised last word,
\* alone or followed by '/ Name', goes with the spaces before it
\* from position n on s is '[A-Z][a-z\s]+'
credit_name_fits(s, n) ==
  /\ n <= Len(s) /\ s[n] \in UpperLetters
  /\ n + 1 <= Len(s)
  /\ AllIn(s, n + 1, LowerLetters \cup Spaces)

\* at position q s has '/', then spaces and a name to the end
credit_slash_fits(s, q) ==
  q <= Len(s) /\ s[q] = "/" /\ credit_name_fits(s, q + 1 + Span(s, q + 1, Spaces))

\* from position r on s is spaces only, or spaces, '/', spaces and a name
credit_tail_fits(s, r) ==
  AllIn(s, r, Spaces) \/ credit_slash_fits(s, r + Span(s, r, Spaces))

\* a capitalised word starts at position u and the rest of s fits the credit
credit_fits(s, u) ==
  /\ Span(s, u + 1, LowerLetters) >= 1
  /\ credit_tail_fits(s, u + 1 + Span(s, u + 1, LowerLetters))

strip_trailing_credit(s) ==
  cut_at_first(s, {u \in 2..Len(s) : s[u] \in UpperLetters /\ s[u - 1] = " " /\ credit_fits(s, u)})

\* the n-th substitution of the editorial pass on the text the ones before it left
editorial_substitution(s, n) ==
  CASE n = 1 -> remove_all(s, editorial_watermarks, 1)
    [] n = 2 -> strip_allrecipes_credit(s)
    [] n = 3 -> strip_trailing_site(s, allrecipes)
    [] n = 4 -> strip_trailing_credit(s)
    [] n = 5 -> strip_trailing_sites(s, 1)
    [] n = 6 -> strip(Replace(s, <<".", ".">>, <<".">>))
    [] n = 7 -> strip(collapse_spaces(s))
    [] n = 8 -> rstrip_chars(s, {".", ",", ";", ":", " "})

\* the substitutions from the n-th on, in order (none of them adds to an empty text)
RECURSIVE editorial_substitutions(_, _)
editorial_substitutions(s, n) ==
  IF n > 8 \/ s = <<>> THEN s
  ELSE editorial_substitutions(editorial_substitution(s, n), n + 1)

\* the editorial pass on one instruction
remove_credits(instruction) == editorial_substitutions(instruction, 1)

\* the editorial loop of finalize_response: what is left of a step is kept when it has
\* more than 5 characters
remove_editorial_watermarks(items) ==
  SelectSeq([i \in 1..Len(items) |-> remove_credits(items[i])], LAMBDA clean_inst : Len(clean_inst) > 5)

-----------------------------------------------------------------------------
(* Finalizer: title, score clamp, numeric fields and the response body *)

\* the upper-case letter of each lower-case letter, and str.upper() on one character
UpperMap ==
  [c \in LowerLetters |-> Upper[CHOOSE i \in 1..Len(LowerAlpha) : LowerAlpha[i] = c]]
UpperChar(c) == IF c \in DOMAIN UpperMap THEN UpperMap[c] ELSE c

\* str.title(): a letter after a non-letter is upper case, every other letter lower case
title_case(s) ==
  [i \in 1..Len(s) |->
     IF s[i] \in Letters /\ (i = 1 \/ s[i - 1] \notin Letters) THEN UpperChar(s[i])
     ELSE LowerChar(s[i])]

\* urlparse(url).path of an absolute URL 'scheme://host/path?query#fragment'
url_path(url) ==
  LET marks == {i \in 1..(Len(url) - 2) : url[i] = ":" /\ url[i + 1] = "/" /\ url[i + 2] = "/"}
      after_scheme == IF marks = {} THEN url ELSE From(url, Least(marks) + 3)
      from_path == From(after_scheme, 1 + SpanNot(after_scheme, 1, {"/", "?", "#"}))
  IN Take(from_path, SpanNot(from_path, 1, {"?", "#"}))

\* [p for p in path.split('/') if p and p != 'recipe']
RECURSIVE path_parts(_)
path_parts(path) ==
  IF path = <<>> THEN <<>>
  ELSE LET n == SpanNot(path, 1, {"/"})
           p == Take(path, n)
           rest == path_parts(From(path, n + 2))
       IN IF p # <<>> /\ p # <<"r","e","c","i","p","e">> THEN <<p>> \o rest ELSE rest

\* site_suffixes of sanitize_title ('| bon appétit' cannot end an ASCII title)
site_suffixes ==
  << <<"|"," ","t","h","e"," ","k","i","t","c","h","n">>,
     <<"-"," ","a","l","l","r","e","c","i","p","e","s">>,
     <<"|"," ","f","o","o","d"," ","n","e","t","w","o","r","k">> >>

RECURSIVE remove_site_suffixes(_, _)
remove_site_suffixes(title, k) ==
  IF k > Len(site_suffixes) THEN title
  ELSE remove_site_suffixes(
         IF EndsWith(lower(title), site_suffixes[k])
           THEN strip(Take(title, Len(title) - Len(site_suffixes[k])))
           ELSE title,
         k + 1)

DefaultTitle == <<"R","e","c","i","p","e">>

\* sanitize_title(title, url)
\* the title made from the last part of the url path, 'Recipe' when the path has none
title_from_parts(parts) ==
  IF parts # <<>>
    THEN Take(title_case([i \in 1..Len(parts[Len(parts)]) |->
                            IF parts[Len(parts)][i] \in {"-", "_"} THEN " "
                            ELSE parts[Len(parts)][i]]), 200)
    ELSE DefaultTitle

title_or_default(cleaned) == IF cleaned # <<>> THEN Take(cleaned, 200) ELSE DefaultTitle

\* re.sub(r'[^\w\s\-.,!?]', '', title)
title_characters(title) ==
  SelectSeq(title, LAMBDA c : c \in Letters \cup Digits \cup {"_", " ", "-", ".", ",", "!", "?"})

sanitize_title(title, url) ==
  IF ~NonEmpty(title) \/ is_bot_wall(title)
    THEN title_from_parts(path_parts(url_path(url)))
    ELSE title_or_default(
           strip(collapse_spaces(title_characters(remove_site_suffixes(strip(title), 1)))))

\* the image words of the poor-image penalty of clamp_quality_score
poor_image_words ==
  << <<"l","o","g","o">>,
     <<"f","a","v","i","c","o","n">>,
     <<"p","l","a","c","e","h","o","l","d","e","r">> >>

Min(a, b) == IF a < b THEN a ELSE b

\* the steps of clamp_quality_score on the score so far: bot-wall title, thin or failed
\* instructions, thin ingredients, poor image, and the final clamp to [0, 1]
clamp_bot_wall(r, score) ==
  IF is_bot_wall(r.title) THEN Min(score, 40000) ELSE score

clamp_instructions(r, score) ==
  IF \/ Len(r.instructions) < 3
     \/ \E i \in 1..Len(r.instructions) : Contains(lower(r.instructions[i]), sentinel_phrase)
    THEN Min(score, 40000) ELSE score

clamp_ingredients(r, score) ==
  IF Len(r.ingredients) < 3 THEN Min(score, 50000) ELSE score

poor_image_penalty(r, score) ==
  IF ~NonEmpty(r.image) \/ ContainsAny(lower(r.image), poor_image_words)
    THEN (IF score - 15000 > 0 THEN score - 15000 ELSE 0) ELSE score

clamp_unit_interval(score) ==
  IF score < 0 THEN 0 ELSE IF score > 100000 THEN 100000 ELSE score

\* clamp_quality_score(recipe_data, base_score), in units of 1/100000
clamp_quality_score(r, base_score) ==
  clamp_unit_interval(
    poor_image_penalty(r,
      clamp_ingredients(r, clamp_instructions(r, clamp_bot_wall(r, base_score)))))

\* JSON values of the numeric fields as the finalizer receives them: null, an integer,
\* a float (written in tenths) or a string
JNull == [t |-> "null", n |-> 0, s |-> <<>>]
JInt(n) == [t |-> "int", n |-> n, s |-> <<>>]
JFloat(tenths) == [t |-> "float", n |-> tenths, s |-> <<>>]
JStr(s) == [t |-> "str", n |-> 0, s |-> s]

\* truth value of a JSON value (bool(v))
JTruthy(v) ==
  IF v.t = "null" THEN FALSE ELSE IF v.t = "str" THEN v.s # <<>> ELSE v.n # 0

\* the value of a text of decimal digits
RECURSIVE digits_value(_)
digits_value(s) ==
  IF s = <<>> THEN 0
  ELSE 10 * digits_value(SubSeq(s, 1, Len(s) - 1))
       + (CHOOSE d \in 0..9 : DigitChars[d + 1] = s[Len(s)])

\* int(v) for an int, a float (truncated towards zero) or a string (spaces around an
\* optional sign and decimal digits); None when int() raises ValueError
text_to_int(t) ==
  LET signed == t # <<>> /\ t[1] \in {"+", "-"}
      ds == IF signed THEN Tail(t) ELSE t
  IN IF ds # <<>> /\ AllIn(ds, 1, Digits)
       THEN Some(IF signed /\ t[1] = "-" THEN 0 - digits_value(ds) ELSE digits_value(ds))
       ELSE None

to_int(v) ==
  IF v.t = "int" THEN Some(v.n)
  ELSE IF v.t = "float" THEN Some(IF v.n >= 0 THEN v.n \div 10 ELSE 0 - ((0 - v.n) \div 10))
  ELSE IF v.t = "str" THEN text_to_int(strip(v.s))
  ELSE None

\* a validation that moves an out-of-range value to the nearest end of the range
int_clamped(i, lo, hi) ==
  IF i = None THEN JNull
  ELSE IF i[1] < lo THEN JInt(lo) ELSE IF i[1] > hi THEN JInt(hi) ELSE JInt(i[1])

in_range_or_null_clamped(v, lo, hi) ==
  int_clamped(IF v.t = "null" THEN None ELSE to_int(v), lo, hi)

\* the value finalize_response leaves in a field that must lie in lo..hi: the integer
\* when int(value) lies in the range, null otherwise
int_in_range_or_null(i, lo, hi) ==
  IF i # None /\ i[1] >= lo /\ i[1] <= hi THEN JInt(i[1]) ELSE JNull

in_range_or_null(v, lo, hi) ==
  int_in_range_or_null(IF v.t = "null" THEN None ELSE to_int(v), lo, hi)

\* the numeric fields of a record of the handler as JSON values: None is null, the ''
\* of an absent time (written 0) is the empty string
json_value(v) == IF v = NoneVal THEN JNull ELSE IF v = 0 THEN JStr(<<>>) ELSE JInt(v)

\* the record of the handler as finalize_response receives it (no prep_time_minutes key)
FinalizerInput(record) ==
  [title |-> record.title, ingredients |-> record.ingredients,
   instructions |-> record.instructions, image |-> record.image,
   servings |-> json_value(record.servings), prep_time |-> json_value(record.prep_time),
   prep_time_minutes |-> JNull, cook_time |-> json_value(record.cook_time),
   quality_score |-> Some(record.quality_score), metadata |-> record.metadata]

\* the JSON body of a failure response; a key the body does not have is None
FailureBody(error, quality_score, reason) ==
  [kind |-> "failure", error |-> error, quality_score |-> quality_score, reason |-> reason]

\* the rejection of finalize_response
NoRecipeContent ==
  FailureBody(Some("Recipe extraction failed - no usable content"), Some(0), Some("no_recipe_content"))

\* the instruction loop without the sentinel for an empty outcome
instructions_as_cleaned(cleaned_steps) == cleaned_steps

\* the record after the cleaning passes of finalize_response, with the title sanitized
instructions_or_sentinel(cleaned_steps) ==
  IF cleaned_steps = <<>> THEN <<STEP_Sentinel>> ELSE cleaned_steps

cleaned_record(recipe_data, url) ==
  [recipe_data EXCEPT
     !.ingredients = clean_ingredients(recipe_data.ingredients),
     !.instructions = remove_editorial_watermarks(
                        instructions_or_sentinel(clean_steps(recipe_data.instructions))),
     !.metadata.bot_wall_detected = @ \/ is_bot_wall(recipe_data.title),
     !.title = sanitize_title(recipe_data.title, url)]

\* calculate_quality_score on a record whose numeric fields are JSON values
score_of(r) ==
  calculate_quality_score(
    [r EXCEPT !.servings = IF JTruthy(@) THEN 1 ELSE 0, !.prep_time = IF JTruthy(@) THEN 1 ELSE 0])

\* the body finalize_response answers for a record it does not reject: r is the cleaned
\* record, quality_score the score the record came with (None when it has none)
recipe_body(r, quality_score) ==
  LET base_qs == IF quality_score = None THEN score_of(r) ELSE quality_score[1]
      prep_time == IF JTruthy(r.prep_time) THEN r.prep_time ELSE r.prep_time_minutes
      prep_minutes == in_range_or_null(prep_time, 1, 600)
  IN [kind |-> "recipe", title |-> r.title, ingredients |-> r.ingredients,
      instructions |-> r.instructions, image |-> r.image,
      servings |-> in_range_or_null(r.servings, 2, 50),
      prep_time |-> prep_minutes, prep_time_minutes |-> prep_minutes,
      cook_time |-> r.cook_time,
      quality_score |-> clamp_quality_score(r, base_qs),
      metadata |-> r.metadata]

\* a final check that rejects a record when either list is short
final_quality_check_either_short(r, quality_score) ==
  IF Len(r.ingredients) < 2 \/ Len(r.instructions) < 2 THEN NoRecipeContent
  ELSE recipe_body(r, quality_score)

\* the final check as it was before the gate on the two lists: a record whose final score
\* is 0.0 is rejected as well
final_quality_check_zero_score(r, quality_score) ==
  LET body == recipe_body(r, quality_score)
  IN IF body.quality_score = 0 \/ (Len(r.ingredients) < 2 /\ Len(r.instructions) < 2)
     THEN NoRecipeContent
     ELSE body

\* the final quality check of finalize_response on the cleaned record r
final_quality_check(r, quality_score) ==
  LET has_ingredients == Len(r.ingredients) >= 2
      has_instructions == Len(r.instructions) >= 2
  IN IF ~has_ingredients /\ ~has_instructions THEN NoRecipeContent
     ELSE recipe_body(r, quality_score)

\* finalize_response(recipe_data, url): the JSON body of the response it returns
finalize_response(recipe_data, url) ==
  final_quality_check(cleaned_record(recipe_data, url), recipe_data.quality_score)

-----------------------------------------------------------------------------
(* State of one web request in lambda_handler *)

VARIABLES
  pc,                  \* where the handler is: the collaborator call it makes next (at first
                       \* where the request goes: "start" for a web page, "youtube", "tiktok",
                       \* or "malformed" for a body that is not JSON)
  cfg,                 \* the environment read at request start
  url,                 \* body.get('url', ''): the empty text when the key is missing or empty
  html,                \* TRUE when the handler holds page content
  recipe_data,         \* the current best record (None before the parse)
  quality_score,       \* quality_score of the handler
  spoonacular_result,  \* result of the tier-2 call (None when not made or failed)
  best_confidences,    \* confidences handed to the patch-only merge
  deterministic_result,\* what extract_recipe_data returned (None before the parse)
  ai_data,             \* call_ai_fallback: its local ai_data, the parsed answer held so far
  ai_responses,        \* call_ai_fallback: the answers of the model so far, in order
  ai_result,           \* what call_ai_fallback returned to the handler
  calls,               \* collaborator calls made so far, in order
  accepted_at,         \* the tier whose candidate passed the gate ("" when none did)
  response,            \* None, or the response of the request
  fn                   \* argument and result of a function applied on its own

vars == <<pc, cfg, url, html, recipe_data, quality_score, spoonacular_result, best_confidences,
          deterministic_result, ai_data, ai_responses, ai_result, calls, accepted_at,
          response, fn>>

\* the URL of a video request
VideoURL == <<"h","t","t","p","s",":","/","/","y","o","u","t","u",".","b","e","/","x","1">>

NoConfidences ==
  [title |-> 0, image |-> 0, ingredients |-> 0, instructions |-> 0, servings |-> 0, total_time |-> 0]

Init ==
  /\ pc \in {"start", "youtube", "tiktok", "malformed"}
  /\ cfg \in Configs
  /\ url \in (IF pc = "start" THEN {URL, <<>>}
              ELSE IF pc \in {"youtube", "tiktok"} THEN {VideoURL} ELSE {<<>>})
  /\ html \in BOOLEAN
  /\ recipe_data = None
  /\ quality_score = 0
  /\ spoonacular_result = None
  /\ best_confidences = NoConfidences
  /\ deterministic_result = None
  /\ ai_data = None
  /\ ai_responses = <<>>
  /\ ai_result = None
  /\ calls = <<>>
  /\ accepted_at = ""
  /\ response = None
  /\ fn = None

\* try_spoonacular(url): None without a key, on a timeout, a non-200 answer or an exception
try_spoonacular(outcome) ==
  IF outcome.kind = "ok"
    THEN LET normalized == [outcome.data[1] EXCEPT !.site_link = url]
         IN Some([normalized EXCEPT !.quality_score = calculate_quality_score(normalized)])
    ELSE None

\* a try_spoonacular that repeats its own request once
AfterSpoonCall_retry ==
  IF cfg.spoon_api_key THEN calls \o <<"spoonacular", "spoonacular">> ELSE calls

\* the calls log after try_spoonacular: no request leaves without an API key
AfterSpoonCall == IF cfg.spoon_api_key THEN Append(calls, "spoonacular") ELSE calls

\* the outcomes try_spoonacular can see under the configuration
SpoonOutcomesHere ==
  IF cfg.spoon_api_key THEN SpoonOutcomes ELSE {[kind |-> "no_api_key", data |-> None]}

\* return finalize_response(record, url): the record handed to the finalizer and the body
\* the finalizer answers with
Finalize(record) ==
  Some([kind |-> "finalize", statusCode |-> 200, recipe |-> record,
        body |-> finalize_response(FinalizerInput(record), url)])

\* the 400 response of a failed page fetch: its body has the error key only
FetchError ==
  Some([kind |-> "error", statusCode |-> 400, recipe |-> None,
        body |-> FailureBody(Some("Failed to fetch HTML content"), None, None)])

\* spn marked as the Spoonacular tier's record and rescored (early and recovery paths)
MarkSpoonacular(spn) ==
  LET marked == [spn EXCEPT !.metadata.tier_used = "spoonacular"]
  IN [marked EXCEPT !.quality_score = calculate_quality_score(marked)]

\* lambda_handler: early Spoonacular try when the request carries no HTML
EarlySpoonacular ==
  /\ pc = "start"
  /\ IF ~html /\ cfg.spoon_enabled
       THEN \E o \in SpoonOutcomesHere :
              LET spn == try_spoonacular(o) IN
              /\ calls' = AfterSpoonCall
              /\ IF spn # None
                   THEN /\ response' = Finalize(MarkSpoonacular(spn[1]))
                        /\ pc' = "done"
                   ELSE /\ response' = response
                        /\ pc' = "fetch"
       ELSE /\ pc' = "fetch"
            /\ UNCHANGED <<calls, response>>
  /\ UNCHANGED <<cfg, url, html, recipe_data, quality_score, spoonacular_result, best_confidences,
                 deterministic_result, ai_data, ai_responses, ai_result, accepted_at, fn>>

\* lambda_handler: fetch the page when the request carries no HTML; requests.get('')
\* raises MissingSchema, which the handler takes as a failed fetch like any other
FetchHTML ==
  /\ pc = "fetch"
  /\ IF html
       THEN /\ pc' = "parse"
            /\ UNCHANGED <<html, calls, response>>
       ELSE \E fetched \in (IF url = <<>> THEN {FALSE} ELSE BOOLEAN) :
              /\ calls' = Append(calls, "fetch")
              /\ IF fetched
                   THEN /\ html' = TRUE
                        /\ pc' = "parse"
                        /\ response' = response
                   ELSE /\ html' = html
                        /\ IF cfg.spoon_enabled
                             THEN /\ pc' = "recovery"
                                  /\ response' = response
                             ELSE /\ pc' = "done"
                                  /\ response' = FetchError
  /\ UNCHANGED <<cfg, url, recipe_data, quality_score, spoonacular_result, best_confidences,
                 deterministic_result, ai_data, ai_responses, ai_result, accepted_at, fn>>

\* lambda_handler: after a failed fetch, try Spoonacular once before failing
SpoonacularRecovery ==
  /\ pc = "recovery"
  /\ \E o \in SpoonOutcomesHere :
       LET spn == try_spoonacular(o) IN
       /\ calls' = AfterSpoonCall
       /\ response' = IF spn # None THEN Finalize(MarkSpoonacular(spn[1])) ELSE FetchError
  /\ pc' = "done"
  /\ UNCHANGED <<cfg, url, html, recipe_data, quality_score, spoonacular_result, best_confidences,
                 deterministic_result, ai_data, ai_responses, ai_result, accepted_at, fn>>

\* a handler that returns the accepted record and still moves on to the next tier
AcceptTier_falls_through(tier, out) ==
  /\ recipe_data' = Some(out)
  /\ accepted_at' = tier
  /\ response' = Finalize(out)
  /\ pc' = IF tier = "deterministic" THEN "tier2" ELSE "ai_first"

\* lambda_handler: a tier's candidate passed the gate, return it through the finalizer
AcceptTier(tier, out) ==
  /\ recipe_data' = Some(out)
  /\ accepted_at' = tier
  /\ response' = Finalize(out)
  /\ pc' = "done"

\* lambda_handler: the deterministic tier and its acceptance gate
ParseDeterministic ==
  /\ pc = "parse"
  /\ \E c \in DetCandidates :
       LET d  == [c EXCEPT !.site_link = url]
           t1 == should_accept_tier(d, "deterministic", cfg.min_trigger_score)
       IN
       /\ deterministic_result' = Some(d)
       /\ quality_score' = calculate_quality_score(d)
       /\ IF t1.accepted
            THEN LET out == [d EXCEPT !.metadata.tier_used = "deterministic",
                                      !.quality_score = t1.score]
                 IN AcceptTier("deterministic", out)
            ELSE /\ recipe_data' = Some(d)
                 /\ accepted_at' = accepted_at
                 /\ response' = response
                 /\ pc' = "tier2"
  /\ calls' = Append(calls, "deterministic")
  /\ UNCHANGED <<cfg, url, html, spoonacular_result, best_confidences, ai_data, ai_responses,
                 ai_result, fn>>

\* the continuation without the fall-back of tier_used to 'deterministic'
ReturnCurrent_keeps_tier(record, score) ==
  Finalize([record EXCEPT !.quality_score = score])

\* the continuation of lambda_handler once no further tier runs: tier_used falls back to
\* 'deterministic', the score is stored and the record goes to the finalizer
ReturnCurrent(record, score) ==
  Finalize([record EXCEPT !.metadata.tier_used = "deterministic", !.quality_score = score])

\* best_confidences of lambda_handler: the deterministic confidences, or the spoonacular
\* ones when a Spoonacular result exists and they weigh more
BestConfidences(record, spoon_result) ==
  LET det_conf   == calculate_field_confidence(record, "deterministic")
      spoon_conf == calculate_field_confidence(record, "spoonacular")
  IN IF spoon_result # None
          /\ calculate_weighted_score(spoon_conf) > calculate_weighted_score(det_conf)
       THEN spoon_conf ELSE det_conf

\* needs_ai of lambda_handler
NeedsAi(record, confidences, score, min_trigger_score) ==
  \/ \E f \in DOMAIN confidences : confidences[f] < 600
  \/ \E f \in {"title", "image", "ingredients", "instructions"} : ~NonEmpty(record[f])
  \/ score < min_trigger_score

\* lambda_handler after tier 2: decide whether the generative tier runs
PlanAi(record, spoon_result, score) ==
  LET conf == BestConfidences(record, spoon_result) IN
  /\ best_confidences' = conf
  /\ IF cfg.ai_enabled /\ NeedsAi(record, conf, score, cfg.min_trigger_score)
       THEN /\ recipe_data' = Some(record)
            /\ response' = response
            /\ pc' = "ai_first"
       ELSE /\ recipe_data' = Some([record EXCEPT !.metadata.tier_used = "deterministic",
                                                  !.quality_score = score])
            /\ response' = ReturnCurrent(record, score)
            /\ pc' = "done"

\* lambda_handler: the Spoonacular tier, its merge and gate, then the decision on tier 3
SpoonacularTier ==
  /\ pc = "tier2"
  /\ LET det         == recipe_data[1]
         full_recipe == Len(det.ingredients) >= 3 /\ Len(det.instructions) >= 3
     IN IF cfg.spoon_enabled /\ (quality_score < cfg.min_trigger_score \/ ~full_recipe)
          THEN \E o \in SpoonOutcomesHere :
                 LET result == try_spoonacular(o) IN
                 /\ calls' = AfterSpoonCall
                 /\ spoonacular_result' = result
                 /\ IF result # None
                      THEN LET merged == merge_spoonacular_results(det, result[1])
                               score  == calculate_quality_score(merged)
                               t2     == should_accept_tier(merged, "spoonacular",
                                                            cfg.min_trigger_score)
                               tagged == [merged EXCEPT !.metadata.tier_used = "spoonacular"]
                           IN IF t2.accepted
                                THEN LET out == [tagged EXCEPT !.quality_score = t2.score] IN
                                     /\ quality_score' = score
                                     /\ AcceptTier("spoonacular", out)
                                     /\ best_confidences' = best_confidences
                                ELSE /\ quality_score' = score
                                     /\ accepted_at' = accepted_at
                                     /\ PlanAi(tagged, result, score)
                      ELSE /\ UNCHANGED <<quality_score, accepted_at>>
                           /\ PlanAi(det, result, quality_score)
          ELSE /\ UNCHANGED <<calls, spoonacular_result, quality_score, accepted_at>>
               /\ PlanAi(det, None, quality_score)
  /\ UNCHANGED <<cfg, url, html, deterministic_result, ai_data, ai_responses, ai_result, fn>>

\* a handler that lets the missing AI result surface as an internal error
NoAiResult_raises(out) == Some([kind |-> "error", statusCode |-> 500, recipe |-> None])

\* lambda_handler: call_ai_fallback produced nothing, the best record so far is returned
NoAiResult(out) == Finalize(out)

\* lambda_handler after call_ai_fallback returned: patch-only merge or the ai_error mark,
\* then the finalizer
HandleAiResult(returned) ==
  LET best_base == recipe_data[1] IN
  /\ ai_result' = returned
  /\ IF returned # None
       THEN LET merged == merge_ai_results_patch_only(best_base, returned[1], best_confidences)
                score  == calculate_quality_score(merged)
                out    == [merged EXCEPT !.metadata.tier_used = "ai_fallback",
                                         !.quality_score = score]
            IN /\ recipe_data' = Some(out)
               /\ quality_score' = score
               /\ response' = Finalize(out)
       ELSE LET out == [best_base EXCEPT !.metadata.tier_used = "deterministic",
                                         !.metadata.ai_error = "no_result",
                                         !.quality_score = quality_score]
            IN /\ recipe_data' = Some(out)
               /\ quality_score' = quality_score
               /\ response' = NoAiResult(out)
  /\ pc' = "done"

\* call_ai_fallback: the first request to the model (no request leaves without an API key)
AiFirstRequest ==
  /\ pc = "ai_first"
  /\ IF ~cfg.openai_api_key
       THEN /\ calls' = Append(calls, "ai_fallback")
            /\ UNCHANGED <<ai_data, ai_responses>>
            /\ HandleAiResult(None)
       ELSE \E o \in AiOutcomes({AiValid, AiInvalidImage, AiInvalidTitle}) :
              /\ calls' = calls \o <<"ai_fallback", "ai_request">>
              /\ ai_responses' = Append(ai_responses, o)
              /\ ai_data' = o.data
              /\ IF o.kind = "parsed" /\ ~validate_or_explain(o.data[1]).ok
                   THEN /\ pc' = "ai_reprompt"
                        /\ UNCHANGED <<recipe_data, quality_score, response, ai_result>>
                   ELSE HandleAiResult(o.data)
  /\ UNCHANGED <<cfg, url, html, spoonacular_result, best_confidences, deterministic_result,
                 accepted_at, fn>>

\* call_ai_fallback: the one re-prompt after a validation failure
AiReprompt ==
  /\ pc = "ai_reprompt"
  /\ \E o \in AiOutcomes({AiValid, AiInvalidImage}) :
       /\ calls' = Append(calls, "ai_request")
       /\ ai_responses' = Append(ai_responses, o)
       /\ ai_data' = IF o.kind = "parsed" THEN o.data ELSE ai_data
       /\ HandleAiResult(
            IF o.kind \in {"timeout", "unparseable"} THEN None          \* exception: return None
            ELSE IF o.kind \in {"api_error", "empty"} THEN ai_data      \* use original result
            ELSE o.data)                                                \* the re-prompted record
  /\ UNCHANGED <<cfg, url, html, spoonacular_result, best_confidences, deterministic_result,
                 accepted_at, fn>>

\* what extract_youtube_recipe and extract_tiktok_recipe return: records without time keys
VideoData ==
  {[title |-> T_LongPasta, ingredients |-> Ingredients(4, ING_Suffix),
    instructions |-> Steps(3, STEP_Prefix, STEP_Suffix), image |-> IMG_Other,
    servings |-> sv, prep_time |-> JNull, prep_time_minutes |-> JNull, cook_time |-> JNull,
    quality_score |-> Some(70000), metadata |-> EmptyMetadata] :
      sv \in {JNull, JInt(1), JInt(6), JInt(75), JStr(<<"8">>), JStr(<<"4"," ","t","o"," ","6">>)}}
  \cup {[title |-> T_Pasta, ingredients |-> <<>>, instructions |-> Steps(1, STEP_Prefix, STEP_Suffix),
          image |-> <<>>, servings |-> JNull, prep_time |-> JNull, prep_time_minutes |-> JNull,
          cook_time |-> JNull, quality_score |-> Some(30000), metadata |-> EmptyMetadata]}

\* lambda_handler on the record of a video extractor: servings becomes a string ('4' when
\* there is none), prep_time_minutes is 0, the score is calculate_quality_score
format_video_record(rec) ==
  LET formatted ==
        [rec EXCEPT !.servings = IF @.t = "null" THEN JStr(<<"4">>)
                                 ELSE IF @.t = "int" THEN JStr(NumStr(@.n))
                                 ELSE @,
                    !.prep_time_minutes = JInt(0)]
  IN [formatted EXCEPT !.quality_score = Some(score_of(formatted))]

\* the 200 response of a failed video extraction
VideoFailure(route) ==
  Some([kind |-> "video_error", statusCode |-> 200, recipe |-> None,
        body |-> IF route = "youtube"
                   THEN FailureBody(Some("YouTube extraction failed"), Some(0),
                                    Some("youtube_extraction_failed"))
                   ELSE FailureBody(Some("TikTok extraction failed"), Some(0),
                                    Some("tiktok_extraction_failed"))])

\* lambda_handler: a YouTube or TikTok URL goes to its extractor and then to the finalizer
VideoExtraction ==
  /\ pc \in {"youtube", "tiktok"}
  /\ \E extracted \in {None} \cup {Some(d) : d \in VideoData} :
       response' = IF extracted = None THEN VideoFailure(pc)
                   ELSE LET formatted == format_video_record(extracted[1]) IN
                        Some([kind |-> "video", statusCode |-> 200, recipe |-> formatted,
                              body |-> finalize_response(formatted, VideoURL)])
  /\ calls' = Append(calls, pc)
  /\ pc' = "done"
  /\ UNCHANGED <<cfg, url, html, recipe_data, quality_score, spoonacular_result, best_confidences,
                 deterministic_result, ai_data, ai_responses, ai_result, accepted_at, fn>>

\* lambda_handler: an exception outside the tiers (here json.loads on the request body)
\* is answered by the 500 response, whose body has the error key only
UnexpectedException ==
  /\ pc = "malformed"
  /\ response' = Some([kind |-> "exception", statusCode |-> 500, recipe |-> None,
                       body |-> FailureBody(Some("Expecting value"), None, None)])
  /\ pc' = "done"
  /\ UNCHANGED <<cfg, url, html, recipe_data, quality_score, spoonacular_result, best_confidences,
                 deterministic_result, ai_data, ai_responses, ai_result, calls, accepted_at, fn>>

Next ==
  \/ VideoExtraction
  \/ UnexpectedException
  \/ EarlySpoonacular
  \/ FetchHTML
  \/ SpoonacularRecovery
  \/ ParseDeterministic
  \/ SpoonacularTier
  \/ AiFirstRequest
  \/ AiReprompt

Spec == Init /\ [][Next]_vars


-----------------------------------------------------------------------------
(* The acceptance gate applied on its own to a family of candidate records *)

\* bounds of the gate's inputs
MaxGateIngredients == 8
MaxGateSteps == 6

\* a candidate whose last ingredient or last step is replaced by a tainted text
Tainted(r, taint) ==
  IF taint = "ingredient_watermark" /\ r.ingredients # <<>>
    THEN [r EXCEPT !.ingredients[Len(r.ingredients)] = ING_Watermark]
  ELSE IF taint = "step_watermark" /\ r.instructions # <<>>
    THEN [r EXCEPT !.instructions[Len(r.instructions)] = STEP_Watermark]
  ELSE IF taint = "step_sentinel" /\ r.instructions # <<>>
    THEN [r EXCEPT !.instructions[Len(r.instructions)] = STEP_Sentinel]
  ELSE r

GateRecords ==
  {DetRecipe(t, ni, ns, img, sv, tt) :
      t \in {T_Pasta, T_Short, T_BotWall, T_NoInstructions},
      ni \in 0..MaxGateIngredients, ns \in 0..MaxGateSteps,
      img \in {<<>>, IMG_Https}, sv \in {NoneVal, 4}, tt \in {NoTimes, <<NoneVal, 45>>}}
  \cup {Tainted(DetRecipe(T_Pasta, ni, ns, IMG_Https, 4, PageTimes), taint) :
      ni \in 0..MaxGateIngredients, ns \in 0..MaxGateSteps,
      taint \in {"ingredient_watermark", "step_watermark", "step_sentinel"}}
  \cup {[DetRecipe(T_Pasta, ni, ns, IMG_Https, 4, PageTimes)
           EXCEPT !.metadata.bot_wall_detected = TRUE] :
      ni \in 0..MaxGateIngredients, ns \in 0..MaxGateSteps}

\* the handler's variables while a function is applied on its own
HandlerIdle ==
  /\ pc = "fn"
  /\ cfg \in {c \in Configs : c.ai_enabled /\ c.spoon_enabled /\ c.spoon_api_key
                               /\ c.min_trigger_score = 60000}
  /\ url = URL
  /\ html = FALSE
  /\ recipe_data = None
  /\ quality_score = 0
  /\ spoonacular_result = None
  /\ best_confidences = NoConfidences
  /\ deterministic_result = None
  /\ ai_data = None
  /\ ai_responses = <<>>
  /\ ai_result = None
  /\ calls = <<>>
  /\ accepted_at = ""
  /\ response = None

HandlerUnchanged ==
  UNCHANGED <<pc, cfg, url, html, recipe_data, quality_score, spoonacular_result, best_confidences,
              deterministic_result, ai_data, ai_responses, ai_result, calls, accepted_at,
              response>>

InitGate ==
  /\ HandlerIdle
  /\ fn \in {[op |-> "should_accept_tier", recipe_data |-> r, tier |-> t,
              min_trigger_score |-> m, result |-> None] :
               r \in GateRecords, t \in {"deterministic", "spoonacular", "other"},
               m \in {60000, 70000}}

\* should_accept_tier(recipe_data, tier, min_trigger_score)
ApplyGate ==
  /\ fn.op = "should_accept_tier"
  /\ fn.result = None
  /\ fn' = [fn EXCEPT !.result = Some(should_accept_tier(fn.recipe_data, fn.tier,
                                                         fn.min_trigger_score))]
  /\ HandlerUnchanged

NextGate == ApplyGate

SpecGate == InitGate /\ [][NextGate]_vars

-----------------------------------------------------------------------------
(* The patch-only merge applied on its own to base records, patches and confidences *)

\* bounds of the merge's inputs: list lengths of the base record and of the patch
MaxMergeBase == 5
MaxMergePatch == 7

\* confidences on both sides of the thresholds 0.5 and 0.8, in units of 1/1000
MergeConfLevels == {0, 499, 500, 799, 800, 900}

\* base records: n ingredients and MaxMergeBase - n steps, scalar fields absent or present
MergeBases ==
  {DetRecipe(<<>>, n, MaxMergeBase - n, <<>>, NoneVal, NoTimes) : n \in 0..MaxMergeBase}
  \cup {DetRecipe(T_Pasta, n, MaxMergeBase - n, IMG_Https, 4, PageTimes) : n \in 0..MaxMergeBase}

\* patches: m ingredients and m steps; no scalar field, a shorter title with an http
\* image, or a longer title with an https image
MergePatches ==
  {Recipe(<<>>, Ingredients(m, ING_AiSuffix), Steps(m, STEP_AiPrefix, STEP_AiSuffix),
          <<>>, NoneVal, NoneVal, NoneVal, NoneVal) : m \in 0..MaxMergePatch}
  \cup {Recipe(T_Short, Ingredients(m, ING_AiSuffix), Steps(m, STEP_AiPrefix, STEP_AiSuffix),
               IMG_Http, 6, 20, 40, 60) : m \in 0..MaxMergePatch}
  \cup {Recipe(T_LongPasta, Ingredients(m, ING_AiSuffix), Steps(m, STEP_AiPrefix, STEP_AiSuffix),
               IMG_Other, NoneVal, NoneVal, NoneVal, NoneVal) : m \in 0..MaxMergePatch}

\* confidences as calculate_field_confidence builds them: six fields, none for prep_time
\* and cook_time
MergeConfidences ==
  {[title |-> s, image |-> s, ingredients |-> l, instructions |-> l,
    servings |-> s, total_time |-> s] : s \in MergeConfLevels, l \in MergeConfLevels}

InitMerge ==
  /\ HandlerIdle
  /\ fn \in {[op |-> "merge_ai_results_patch_only", base_result |-> b, ai_result |-> a,
              base_confidences |-> c, result |-> None] :
               b \in MergeBases, a \in MergePatches, c \in MergeConfidences}

\* merge_ai_results_patch_only(base_result, ai_result, base_confidences)
ApplyMerge ==
  /\ fn.op = "merge_ai_results_patch_only"
  /\ fn.result = None
  /\ fn' = [fn EXCEPT !.result = Some(merge_ai_results_patch_only(
                                        fn.base_result, fn.ai_result, fn.base_confidences))]
  /\ HandlerUnchanged

NextMerge == ApplyMerge

SpecMerge == InitMerge /\ [][NextMerge]_vars

-----------------------------------------------------------------------------
(* Properties of the acceptance gate *)

\* the red flags with the watermark looked for in the instruction steps only
NoRedFlagsStepsOnly(r) ==
  /\ ~is_bot_wall(r.title)
  /\ ~ContainsAny(lower(r.title), blocked_phrases)
  /\ Len(r.ingredients) >= 3
  /\ Len(r.instructions) >= 3
  /\ \A i \in 1..Len(r.instructions) : ~Contains(lower(r.instructions[i]), sentinel_phrase)
  /\ \A i \in 1..Len(r.instructions) : ~ContainsAny(lower(r.instructions[i]), watermarks)
  /\ Len(r.instructions) # 1

\* C1 as stated: the gate accepts exactly when the record has no red flag (bot-wall or
\* blocked title, fewer than 3 ingredients, fewer than 3 instructions or the sentinel, a
\* watermark in an instruction, exactly one instruction), is not a bot wall and scores at
\* least the minimum trigger score
C1_GateAcceptsIffStepsOnly ==
  (fn # None /\ fn.op = "should_accept_tier" /\ fn.result # None) =>
     LET r == fn.recipe_data
         weighted == calculate_weighted_score(calculate_field_confidence(r, fn.tier))
     IN fn.result[1].accepted <=>
          (/\ NoRedFlagsStepsOnly(r)
           /\ ~is_bot_wall(r.title)
           /\ ~r.metadata.bot_wall_detected
           /\ weighted >= fn.min_trigger_score)

\* the red flags read off the record itself, the watermark looked for in the ingredient
\* and instruction lines joined by spaces
NoRedFlags(r) ==
  /\ ~is_bot_wall(r.title)
  /\ ~ContainsAny(lower(r.title), blocked_phrases)
  /\ Len(r.ingredients) >= 3
  /\ Len(r.instructions) >= 3
  /\ \A i \in 1..Len(r.instructions) : ~Contains(lower(r.instructions[i]), sentinel_phrase)
  /\ ~ContainsAny(lower(JoinSpace(r.ingredients \o r.instructions)), watermarks)
  /\ Len(r.instructions) # 1

\* C1: the gate accepts a candidate exactly when it has no red flag (bot-wall or blocked
\* title, fewer than 3 ingredients, fewer than 3 instructions or the sentinel, a watermark
\* in the joined ingredient and instruction text, exactly one instruction), is not a bot
\* wall (by its title or by its metadata flag) and its weighted score is at least the
\* minimum trigger score
C1_GateAcceptsIff ==
  (fn # None /\ fn.op = "should_accept_tier" /\ fn.result # None) =>
     LET r == fn.recipe_data
         weighted == calculate_weighted_score(calculate_field_confidence(r, fn.tier))
     IN fn.result[1].accepted <=>
          (/\ NoRedFlags(r)
           /\ ~is_bot_wall(r.title)
           /\ ~r.metadata.bot_wall_detected
           /\ weighted >= fn.min_trigger_score)

\* a candidate that clears the threshold and is rejected for a watermark that only an
\* ingredient line carries
C1_Witness ==
  /\ fn # None /\ fn.op = "should_accept_tier" /\ fn.result # None
  /\ ~fn.result[1].accepted
  /\ fn.result[1].reason = "red_flags"
  /\ fn.result[1].score >= fn.min_trigger_score
  /\ NoRedFlagsStepsOnly(fn.recipe_data)
  /\ ContainsAny(lower(JoinSpace(fn.recipe_data.ingredients)), watermarks)


-----------------------------------------------------------------------------
(* Properties of one web request *)

InCalls(name) == \E i \in DOMAIN calls : calls[i] = name

CountCalls(name) == Cardinality({i \in DOMAIN calls : calls[i] = name})

\* position of the deterministic parse in the calls log (0 before it ran)
ParsedAt ==
  IF InCalls("deterministic") THEN CHOOSE i \in DOMAIN calls : calls[i] = "deterministic" ELSE 0

\* the collaborator calls made after the deterministic parse
AfterParse == IF ParsedAt = 0 THEN <<>> ELSE SubSeq(calls, ParsedAt + 1, Len(calls))

\* the tier attempts of the request, page fetches left out
TierCalls == SelectSeq(calls, LAMBDA c : c # "fetch")

TierRank(name) ==
  IF name = "deterministic" THEN 1 ELSE IF name = "spoonacular" THEN 2 ELSE 3

InTierOrder(log) ==
  \A i, j \in DOMAIN log : i < j => TierRank(log[i]) <= TierRank(log[j])

ReturnedRecord == pc = "done" /\ response # None /\ response[1].kind = "finalize"

ReturnedError == pc = "done" /\ response # None /\ response[1].kind = "error"

\* the candidate of the structured-data path: a valid title, exactly five ingredients and
\* four instruction steps of more than 20 characters each
StructuredCandidate(r) ==
  /\ is_valid_title(r.title)
  /\ Len(r.ingredients) = 5
  /\ Len(r.instructions) = 4
  /\ \A i \in DOMAIN r.instructions : Len(r.instructions[i]) > 20

\* a title of at most 200 characters that names no bot wall, an https image that is no
\* logo, icon or favicon, and no watermark or sentinel text in the lists
CleanCandidate(r) ==
  /\ Len(r.title) <= 200
  /\ ~ContainsAny(lower(r.title), bot_phrases)
  /\ StartsWith(r.image, https_prefix)
  /\ ~ContainsAny(lower(r.image), logos)
  /\ ~ContainsAny(lower(JoinSpace(r.ingredients \o r.instructions)), watermarks)
  /\ \A i \in DOMAIN r.instructions : ~Contains(lower(r.instructions[i]), sentinel_phrase)
  /\ ~r.metadata.bot_wall_detected

\* C2 as stated: a structured-data candidate with a valid title, 5 ingredients and 4 long
\* steps is accepted at the first tier and neither the external API nor the generative
\* collaborator is invoked, whatever the flags
C2_StructuredCandidateAccepted ==
  (deterministic_result # None /\ StructuredCandidate(deterministic_result[1])) =>
     /\ accepted_at = "deterministic"
     /\ ~InCalls("spoonacular")
     /\ ~InCalls("ai_fallback")

\* C2: under the default threshold 0.60, a structured-data candidate with a valid title of
\* at most 200 characters, 5 ingredients, 4 long steps, an https image that is no logo and
\* no bot-wall, watermark or sentinel text is accepted at the first tier, is returned as
\* parsed, and no collaborator is invoked after the parse, whatever the flags; a request
\* that carried its HTML invokes no collaborator at all
C2_CleanStructuredCandidateAccepted ==
  (/\ deterministic_result # None
   /\ StructuredCandidate(deterministic_result[1])
   /\ CleanCandidate(deterministic_result[1])
   /\ cfg.min_trigger_score = 60000) =>
     /\ accepted_at = "deterministic"
     /\ ReturnedRecord
     /\ response[1].recipe.title = deterministic_result[1].title
     /\ response[1].recipe.ingredients = deterministic_result[1].ingredients
     /\ response[1].recipe.instructions = deterministic_result[1].instructions
     /\ response[1].recipe.metadata.tier_used = "deterministic"
     /\ AfterParse = <<>>
     /\ ~InCalls("ai_fallback")
     /\ ~InCalls("fetch") => calls = <<"deterministic">>

C2_Witness ==
  /\ deterministic_result # None
  /\ StructuredCandidate(deterministic_result[1])
  /\ CleanCandidate(deterministic_result[1])
  /\ ContainsAny(lower(deterministic_result[1].title), brands)
  /\ cfg.min_trigger_score = 60000
  /\ cfg.ai_enabled /\ cfg.spoon_enabled
  /\ accepted_at = "deterministic"
  /\ calls = <<"deterministic">>


\* C3 as stated: the tiers are attempted strictly in the order deterministic, external
\* API, generative, and an accepted candidate ends the request
C3_TiersInFixedOrder ==
  /\ TierCalls # <<>> => TierCalls[1] = "deterministic"
  /\ InTierOrder(TierCalls)
  /\ accepted_at # "" => (ReturnedRecord /\ calls[Len(calls)] = accepted_at)

\* the record the deterministic tier returns once its candidate passed the gate
AcceptedDeterministic ==
  LET d == deterministic_result[1] IN
  [d EXCEPT !.metadata.tier_used = "deterministic",
            !.quality_score = calculate_weighted_score(
                                calculate_field_confidence(d, "deterministic"))]

\* the record the external-API tier returns once the merged candidate passed the gate
AcceptedSpoonacular ==
  LET merged == merge_spoonacular_results(deterministic_result[1], spoonacular_result[1]) IN
  [merged EXCEPT !.metadata.tier_used = "spoonacular",
                 !.quality_score = calculate_weighted_score(
                                     calculate_field_confidence(merged, "spoonacular"))]

\* C3: once the page content is at hand the tiers are attempted strictly in the order
\* deterministic, external API, generative, each at most once; before the parse only the
\* external API (for a request without HTML) and the page fetch are called; once a tier's
\* candidate passes the gate the request returns that candidate and no later tier's
\* collaborator is invoked
C3_TiersInOrderAfterContent ==
  /\ \A i \in DOMAIN calls : i < ParsedAt => calls[i] \in {"spoonacular", "fetch"}
  /\ InTierOrder(AfterParse)
  /\ \A i \in DOMAIN AfterParse : AfterParse[i] # "deterministic"
  /\ Cardinality({i \in DOMAIN AfterParse : AfterParse[i] = "spoonacular"}) <= 1
  /\ CountCalls("ai_fallback") <= 1
  /\ accepted_at = "deterministic" =>
       /\ ReturnedRecord
       /\ AfterParse = <<>>
       /\ should_accept_tier(deterministic_result[1], "deterministic",
                             cfg.min_trigger_score).accepted
       /\ response[1].recipe = AcceptedDeterministic
  /\ accepted_at = "spoonacular" =>
       /\ ReturnedRecord
       /\ AfterParse = <<"spoonacular">>
       /\ ~should_accept_tier(deterministic_result[1], "deterministic",
                              cfg.min_trigger_score).accepted
       /\ response[1].recipe = AcceptedSpoonacular
  /\ (accepted_at = "" /\ InCalls("ai_fallback")) =>
       /\ ~should_accept_tier(deterministic_result[1], "deterministic",
                              cfg.min_trigger_score).accepted
       /\ spoonacular_result # None =>
            ~should_accept_tier(
                merge_spoonacular_results(deterministic_result[1], spoonacular_result[1]),
                "spoonacular", cfg.min_trigger_score).accepted

C3_Witness ==
  /\ accepted_at = "spoonacular"
  /\ ReturnedRecord
  /\ calls = <<"spoonacular", "fetch", "deterministic", "spoonacular">>
  /\ cfg.ai_enabled

\* C4: a candidate is returned without the remaining tiers being tried only if it passed
\* the acceptance gate; this holds on the early external-API path (request without HTML)
\* as well, so a record returned before the page was parsed passes the gate
C4_EarlyReturnPassedGate ==
  (ReturnedRecord /\ ~InCalls("deterministic")) =>
     should_accept_tier(response[1].recipe, "spoonacular", cfg.min_trigger_score).accepted

\* C5 as stated: the external API is called at most twice in a request, and a second call
\* happens only as the retry that follows a failed page fetch
C5_SecondCallOnlyAfterFetchFailure ==
  /\ CountCalls("spoonacular") <= 2
  /\ CountCalls("spoonacular") = 2 => calls = <<"spoonacular", "fetch", "spoonacular">>

\* C5: the external API is called at most twice in a request; a second call happens only
\* when the request carried no HTML and the early call produced nothing, and it is either
\* the retry right after the failed page fetch or the regular tier-2 call right after the
\* parse of the fetched page
C5_AtMostTwoSpoonacularCalls ==
  /\ CountCalls("spoonacular") <= 2
  /\ CountCalls("spoonacular") = 2 =>
       \/ calls = <<"spoonacular", "fetch", "spoonacular">>
       \/ /\ Len(calls) >= 4
          /\ SubSeq(calls, 1, 4) = <<"spoonacular", "fetch", "deterministic", "spoonacular">>
  /\ (InCalls("spoonacular") /\ ~InCalls("fetch")) => CountCalls("spoonacular") = 1

C5_Witness ==
  /\ pc = "done"
  /\ CountCalls("spoonacular") = 2
  /\ InCalls("deterministic")
  /\ spoonacular_result # None


\* the schema of a generative payload: title of 3-200 characters, integer servings >= 1,
\* https image and site link, non-empty lists, ingredients of 3-220 and steps of 1-500
\* characters
SchemaValid(p) ==
  /\ Len(p.title) >= 3 /\ Len(p.title) <= 200
  /\ p.servings # NoneVal /\ p.servings >= 1
  /\ StartsWith(p.image, https_prefix)
  /\ StartsWith(p.site_link, https_prefix)
  /\ p.ingredients # <<>> /\ p.instructions # <<>>
  /\ \A i \in DOMAIN p.ingredients : Len(p.ingredients[i]) >= 3 /\ Len(p.ingredients[i]) <= 220
  /\ \A i \in DOMAIN p.instructions : Len(p.instructions[i]) >= 1 /\ Len(p.instructions[i]) <= 500

\* the first answer of the model parsed as JSON and failed schema validation
FirstParsedInvalid ==
  /\ Len(ai_responses) >= 1
  /\ ai_responses[1].kind = "parsed"
  /\ ~SchemaValid(ai_responses[1].data[1])

\* C6: one invocation of the generative fallback sends at most two requests to the model,
\* and the second is sent if and only if the first answer parsed as JSON and failed schema
\* validation
C6_AtMostTwoModelRequests ==
  /\ CountCalls("ai_request") <= 2
  /\ CountCalls("ai_request") = Len(ai_responses)
  /\ Len(ai_responses) = 2 => FirstParsedInvalid
  /\ (pc = "done" /\ FirstParsedInvalid) => Len(ai_responses) = 2
  /\ pc = "ai_reprompt" <=> (FirstParsedInvalid /\ Len(ai_responses) = 1)

C6_Witness ==
  /\ pc = "done"
  /\ Len(ai_responses) = 2
  /\ ai_responses[2].kind = "parsed"
  /\ ~SchemaValid(ai_responses[2].data[1])

\* C7: when the first answer parsed and failed schema validation, the generative fallback
\* returns a record whatever the re-prompt does: the re-prompted record when the second
\* answer parses, the original one when it times out, is refused or cannot be parsed
C7_InvalidFirstAnswerIsKept ==
  (pc = "done" /\ FirstParsedInvalid) =>
     /\ ai_result # None
     /\ ai_result = IF ai_responses[2].kind = "parsed" THEN ai_responses[2].data
                                                       ELSE ai_responses[1].data

-----------------------------------------------------------------------------
(* Properties of the patch-only merge *)

Merged == fn # None /\ fn.op = "merge_ai_results_patch_only" /\ fn.result # None

ListFields == {"ingredients", "instructions"}

\* the base value of the field is present and its confidence lies in [lo, hi)
BaseInBand(field, lo, hi) ==
  /\ FieldTruthy(field, fn.base_result[field])
  /\ fn.base_confidences[field] >= lo
  /\ fn.base_confidences[field] < hi

\* C9: a field whose base value is present with confidence at least 0.8 keeps the base
\* value in the merged record, except that a patch list more than 20% longer than the
\* base list is adopted for ingredients and instructions
C9_HighConfidenceKept ==
  Merged =>
    \A f \in DOMAIN fn.base_confidences :
      BaseInBand(f, 800, 1001) =>
        fn.result[1][f] =
          IF f \in ListFields /\ 5 * Len(fn.ai_result[f]) > 6 * Len(fn.base_result[f])
            THEN fn.ai_result[f]
            ELSE fn.base_result[f]

C9_Witness ==
  /\ Merged
  /\ fn.base_confidences.ingredients = 900
  /\ Len(fn.base_result.ingredients) = 5
  /\ Len(fn.ai_result.ingredients) = 4
  /\ fn.result[1].ingredients = fn.base_result.ingredients
  /\ fn.result[1].ingredients # fn.ai_result.ingredients

-----------------------------------------------------------------------------
(* The additive merge applied on its own to a base record and a Spoonacular record *)

\* bound of the additive merge's inputs: list lengths of both records
MaxSpoonMergeLen == 3

\* base records: no title, the placeholder or a title; scalar fields absent or present
SpoonMergeBases ==
  {Recipe(t, Ingredients(ni, ING_Suffix), Steps(ns, STEP_Prefix, STEP_Suffix),
          <<>>, NoneVal, NoneVal, 0, 0) :
      t \in {<<>>, UntitledRecipe, T_Pasta}, ni \in 0..MaxSpoonMergeLen, ns \in 0..MaxSpoonMergeLen}
  \cup {Recipe(t, Ingredients(ni, ING_Suffix), Steps(ns, STEP_Prefix, STEP_Suffix),
               IMG_Https, 4, 15, 30, 45) :
      t \in {<<>>, UntitledRecipe, T_Pasta}, ni \in 0..MaxSpoonMergeLen, ns \in 0..MaxSpoonMergeLen}

\* Spoonacular records: lists of their own lines, scalar fields absent or present
SpoonMergeOthers ==
  {Recipe(<<>>, Ingredients(ni, ING_SpoonSuffix), Steps(ns, STEP_SpoonPrefix, STEP_Suffix),
          <<>>, NoneVal, NoneVal, NoneVal, NoneVal) :
      ni \in 0..MaxSpoonMergeLen, ns \in 0..MaxSpoonMergeLen}
  \cup {Recipe(T_LongPasta, Ingredients(ni, ING_SpoonSuffix), Steps(ns, STEP_SpoonPrefix, STEP_Suffix),
               IMG_Other, 6, 10, 35, 50) :
      ni \in 0..MaxSpoonMergeLen, ns \in 0..MaxSpoonMergeLen}

InitSpoonMerge ==
  /\ HandlerIdle
  /\ fn \in {[op |-> "merge_spoonacular_results", deterministic_result |-> d,
              spoonacular_result |-> s, result |-> None] :
               d \in SpoonMergeBases, s \in SpoonMergeOthers}

\* merge_spoonacular_results(deterministic_result, spoonacular_result)
ApplySpoonMerge ==
  /\ fn.op = "merge_spoonacular_results"
  /\ fn.result = None
  /\ fn' = [fn EXCEPT !.result = Some(merge_spoonacular_results(fn.deterministic_result,
                                                               fn.spoonacular_result))]
  /\ HandlerUnchanged

NextSpoonMerge == ApplySpoonMerge

SpecSpoonMerge == InitSpoonMerge /\ [][NextSpoonMerge]_vars

\* the additive merge has been applied
SpoonMerged == fn # None /\ fn.op = "merge_spoonacular_results" /\ fn.result # None

\* the base value of a scalar field is absent: missing, empty or zero, or the placeholder
\* title
BaseAbsent(f, v) ==
  IF f = "title" THEN v = <<>> \/ v = UntitledRecipe
  ELSE IF f = "image" THEN v = <<>>
  ELSE v = NoneVal \/ v = 0

\* C11: the additive merge keeps for ingredients and for instructions the longer list, the
\* base list on a tie, and fills title, image, servings and the times from the other
\* record only when the base value is absent or, for the title, is "Untitled Recipe"; a
\* present base scalar is never overwritten
C11_AdditiveMerge ==
  SpoonMerged =>
    LET base == fn.deterministic_result
        other == fn.spoonacular_result
        merged == fn.result[1]
    IN /\ \A f \in {"ingredients", "instructions"} :
            merged[f] = IF Len(other[f]) > Len(base[f]) THEN other[f] ELSE base[f]
       /\ \A f \in {"title", "image", "servings", "prep_time", "cook_time", "total_time"} :
            /\ ~BaseAbsent(f, base[f]) => merged[f] = base[f]
            /\ BaseAbsent(f, base[f]) =>
                 merged[f] = IF FieldTruthy(f, other[f]) THEN other[f] ELSE base[f]

\* a tie of non-empty lists keeps the base lines, the placeholder title is replaced and the
\* present base image stays
C11_Witness ==
  /\ SpoonMerged
  /\ Len(fn.deterministic_result.ingredients) = 3
  /\ Len(fn.spoonacular_result.ingredients) = 3
  /\ fn.result[1].ingredients = fn.deterministic_result.ingredients
  /\ fn.result[1].ingredients # fn.spoonacular_result.ingredients
  /\ Len(fn.spoonacular_result.instructions) > Len(fn.deterministic_result.instructions)
  /\ fn.result[1].instructions = fn.spoonacular_result.instructions
  /\ fn.deterministic_result.title = UntitledRecipe
  /\ fn.result[1].title = T_LongPasta
  /\ fn.result[1].image = IMG_Https


-----------------------------------------------------------------------------
(* The quality scorer applied on its own, before and after one more ingredient *)

\* bound of the scorer's inputs: the longest ingredient list scored
MaxScoreIngredients == 21

ING_Generic == <<"m","a","i","n"," ","i","n","g","r","e","d","i","e","n","t">>

\* n ingredient lines of which the first g are generic
ScoreIngredients(n, g) ==
  [i \in 1..n |-> IF i <= g THEN ING_Generic ELSE Ingredients(n, ING_Suffix)[i]]

\* the records handed to the scorer
ScoreRecords ==
  {Recipe(t, ScoreIngredients(n, g), Steps(ns, STEP_Prefix, STEP_Suffix), img, sv, sv, 0, 0) :
      t \in {T_Pasta, UntitledRecipe, T_NoInstructions},
      n \in 0..(MaxScoreIngredients - 1), g \in {0, 1},
      ns \in {0, 1, 3}, img \in {<<>>, IMG_Https}, sv \in {NoneVal, 4}}

InitScore ==
  /\ HandlerIdle
  /\ fn \in {[op |-> "calculate_quality_score", recipe_data |-> r, before |-> None,
              result |-> None] : r \in ScoreRecords}

\* calculate_quality_score(recipe_data)
ApplyScore ==
  /\ fn.op = "calculate_quality_score"
  /\ fn.result = None
  /\ fn' = [fn EXCEPT !.result = Some(calculate_quality_score(fn.recipe_data))]
  /\ HandlerUnchanged

\* one more valid ingredient line on the record, and calculate_quality_score again
AddIngredient ==
  /\ fn.op = "calculate_quality_score"
  /\ fn.result # None
  /\ fn.before = None
  /\ Len(fn.recipe_data.ingredients) < MaxScoreIngredients
  /\ LET n    == Len(fn.recipe_data.ingredients)
         more == [fn.recipe_data EXCEPT
                    !.ingredients = Append(@, Ingredients(n + 1, ING_Suffix)[n + 1])]
     IN fn' = [fn EXCEPT !.recipe_data = more,
                         !.before = fn.result,
                         !.result = Some(calculate_quality_score(more))]
  /\ HandlerUnchanged

NextScore == ApplyScore \/ AddIngredient

SpecScore == InitScore /\ [][NextScore]_vars

Scored == fn # None /\ fn.op = "calculate_quality_score" /\ fn.result # None

\* more than 30% of the ingredient lines name a generic ingredient
MostlyGeneric(ingredients) ==
  /\ ingredients # <<>>
  /\ 10 * Cardinality({i \in DOMAIN ingredients :
                         ContainsAny(lower(ingredients[i]), generic_ingredients)})
       > 3 * Len(ingredients)

\* C12: a record with exactly 20 ingredients scores 0.0 whatever its other fields, and a
\* hard-rejected record (invalid title, hallucination) never gets a positive score
C12_HardRejectionScoresZero ==
  Scored =>
    LET r == fn.recipe_data IN
    /\ Len(r.ingredients) = 20 => fn.result[1] = 0
    /\ ~is_valid_title(r.title) => fn.result[1] = 0
    /\ MostlyGeneric(r.ingredients) => fn.result[1] = 0
    /\ fn.result[1] > 0 =>
         (is_valid_title(r.title) /\ Len(r.ingredients) # 20 /\ ~MostlyGeneric(r.ingredients))

\* a complete record of exactly 20 ingredients scored 0.0 that scored 1.0 with 19
C12_Witness ==
  /\ Scored
  /\ Len(fn.recipe_data.ingredients) = 20
  /\ fn.recipe_data.title = T_Pasta
  /\ Len(fn.recipe_data.instructions) = 3
  /\ fn.recipe_data.image = IMG_Https
  /\ fn.before = Some(100000)
  /\ fn.result = Some(0)

\* C13 as stated: with a valid title, one more valid ingredient never decreases the score,
\* for every ingredient count
C13_MoreIngredientsNeverLower ==
  (Scored /\ fn.before # None /\ is_valid_title(fn.recipe_data.title)) =>
     fn.result[1] >= fn.before[1]

\* C13: with a valid title, one more valid ingredient never decreases the score unless it
\* brings the list to exactly 20 entries, where the score drops to 0.0
C13_MoreIngredientsNeverLowerBut20 ==
  (Scored /\ fn.before # None /\ is_valid_title(fn.recipe_data.title)) =>
     /\ Len(fn.recipe_data.ingredients) # 20 => fn.result[1] >= fn.before[1]
     /\ Len(fn.recipe_data.ingredients) = 20 => fn.result[1] = 0

\* the third ingredient lifts the score, and the added line cures a list that was mostly
\* generic
C13_Witness ==
  /\ Scored
  /\ fn.before # None
  /\ is_valid_title(fn.recipe_data.title)
  /\ Len(fn.recipe_data.ingredients) = 4
  /\ generic_count(fn.recipe_data.ingredients) = 1
  /\ fn.before[1] = 0
  /\ fn.result[1] > 0


-----------------------------------------------------------------------------
(* finalize_response applied on its own *)

MaxFinalizeIngredients == 4
MaxFinalizeSteps == 4

T_Suffixed == <<"P","a","s","t","a"," ","-"," ","A","l","l","r","e","c","i","p","e","s">>
URL_Blocked == <<"h","t","t","p","s",":","/","/","e","x","a","m","p","l","e",".","c","o","m","/","r","e","c","i","p","e","/","b","l","o","c","k","e","d","-","c","a","k","e">>
ING_Upper == <<"2"," ","C","u","p","s"," ","F","l","o","u","r">>
ING_Unit == <<"c","u","p"," ","s","u","g","a","r">>
ING_Dotted == <<"2"," ","c","u","p","s"," ","f","l","o","u","r",".">>
STEP_MixWell == <<"M","i","x"," ","w","e","l","l">>
STEP_MixCommaWell == <<"M","i","x",","," ","w","e","l","l">>
STEP_Bake == <<"B","a","k","e",".">>
STEP_Credit == <<"S","e","r","v","e"," ","A","l","l","r","e","c","i","p","e","s"," ","/"," ","Q","i"," ","A","i">>
STEP_Numbered == <<"1","."," ","K","n","e","a","d"," ","t","h","e"," ","d","o","u","g","h"," ","f","o","r"," ","1"," ","m","i","n","u","t","e","s","!">>

\* ingredient lists as a tier hands them over: n distinct lines, a line twice in
\* different case, a line of two characters among real ones
FinalizeIngredientLists ==
  {Ingredients(n, ING_Suffix) : n \in 0..MaxFinalizeIngredients}
  \cup {<<Ingredients(2, ING_Suffix)[2], ING_Upper>>,
        <<T_Short, Ingredients(1, ING_Suffix)[1], ING_Unit>>,
        <<Ingredients(2, ING_Suffix)[2], ING_Dotted>>}

\* instruction lists as a tier hands them over: n distinct steps, two steps that differ in
\* one character, the same step numbered, a step of 5 characters, a step that is only a
\* credit, a list that holds the sentinel, two short steps that differ in a comma
FinalizeStepLists ==
  {Steps(n, STEP_Prefix, STEP_Suffix) : n \in 0..MaxFinalizeSteps}
  \cup {<<STEP_Prefix \o NumStr(1) \o STEP_Suffix, STEP_Prefix \o NumStr(2) \o STEP_Suffix>>,
        <<STEP_Prefix \o NumStr(1) \o STEP_Suffix, STEP_Numbered>>,
        <<STEP_Bake, STEP_Prefix \o NumStr(1) \o STEP_Suffix>>,
        Append(Steps(2, STEP_Prefix, STEP_Suffix), STEP_Credit),
        <<STEP_Credit>>,
        Append(Steps(3, STEP_Prefix, STEP_Suffix), STEP_Sentinel),
        <<STEP_Prefix \o NumStr(1) \o STEP_Suffix, STEP_MixWell, STEP_MixCommaWell>>}

\* records that differ in their texts
FinalizeTextRecords ==
  {[title |-> t, ingredients |-> ing, instructions |-> st, image |-> img,
    servings |-> JInt(4), prep_time |-> JInt(15), prep_time_minutes |-> JNull,
    cook_time |-> JInt(45), quality_score |-> q, metadata |-> EmptyMetadata] :
      t \in {T_Pasta, T_BotWall, T_Cloud, T_Suffixed, <<>>},
      ing \in FinalizeIngredientLists, st \in FinalizeStepLists,
      img \in {<<>>, IMG_Https, IMG_Logo}, q \in {None, Some(0), Some(85000)}}

\* values of a numeric field: none, integers in and out of every range, floats, strings
FinalizeNumbers ==
  {JNull, JInt(0), JInt(1), JInt(2), JInt(6), JInt(50), JInt(51), JInt(75), JInt(600), JInt(601),
   JInt(0 - 1), JFloat(65), JFloat(9), JStr(<<>>), JStr(<<"6">>), JStr(<<"s","i","x">>)}

\* records that differ in their numeric fields
FinalizeNumericRecords ==
  {[title |-> T_Pasta, ingredients |-> Ingredients(3, ING_Suffix),
    instructions |-> Steps(3, STEP_Prefix, STEP_Suffix), image |-> IMG_Https,
    servings |-> sv, prep_time |-> pt, prep_time_minutes |-> ptm,
    cook_time |-> ct, quality_score |-> Some(100000), metadata |-> EmptyMetadata] :
      sv \in FinalizeNumbers, pt \in FinalizeNumbers, ptm \in {JNull, JInt(0), JInt(20)},
      ct \in {JNull, JInt(45), JInt(900), JStr(<<>>)}}

InitFinalize ==
  /\ HandlerIdle
  /\ \E r \in FinalizeTextRecords \cup FinalizeNumericRecords, u \in {URL, URL_Blocked} :
       fn = [op |-> "finalize_response", recipe_data |-> r, url |-> u, result |-> None]

\* finalize_response(recipe_data, url)
ApplyFinalize ==
  /\ fn.op = "finalize_response"
  /\ fn.result = None
  /\ fn' = [fn EXCEPT !.result = Some(finalize_response(fn.recipe_data, fn.url))]
  /\ HandlerUnchanged

NextFinalize == ApplyFinalize

SpecFinalize == InitFinalize /\ [][NextFinalize]_vars

Finalized == fn # None /\ fn.op = "finalize_response" /\ fn.result # None

-----------------------------------------------------------------------------
(* Responses of a request *)

\* the request is answered
Responded == pc = "done" /\ response # None

\* the response carries a recipe
SuccessResponse == Responded /\ response[1].body.kind = "recipe"

\* the response carries a failure body
FailureResponse == Responded /\ response[1].body.kind = "failure"

\* C14 as stated: a record whose title matches a bot-wall phrase on entry to the finalizer
\* is answered with quality_score at most 0.40 and metadata.bot_wall_detected true
C14_BotWallTitleClamped ==
  (SuccessResponse /\ response[1].kind = "finalize" /\ is_bot_wall(response[1].recipe.title)) =>
     /\ response[1].body.quality_score <= 40000
     /\ response[1].body.metadata.bot_wall_detected


\* the record the finalizer was called with, its numeric fields as JSON values
SentToFinalizer ==
  IF response[1].kind = "finalize" THEN FinalizerInput(response[1].recipe) ELSE response[1].recipe

\* C15: in every success response servings is null or an integer from 2 to 50; an integer
\* (or the text of one) in that range is answered as that integer, every other value as
\* null, never as the nearest end of the range
C15_ServingsNullOrInRange ==
  SuccessResponse =>
    LET given == SentToFinalizer.servings
        servings == response[1].body.servings
    IN /\ servings = JNull \/ (servings.t = "int" /\ servings.n \in 2..50)
       /\ (given.t = "int" /\ given.n \in 2..50) => servings = given
       /\ (given.t = "int" /\ given.n \notin 2..50) => servings = JNull
       /\ given.t = "str" =>
            LET i == to_int(given) IN
            servings = IF i # None /\ i[1] \in 2..50 THEN JInt(i[1]) ELSE JNull
       /\ given.t = "null" => servings = JNull

\* a video record with 75 servings: the handler makes it the string '75', the finalizer
\* answers null
C15_Witness ==
  /\ SuccessResponse
  /\ response[1].kind = "video"
  /\ SentToFinalizer.servings = JStr(<<"7", "5">>)
  /\ response[1].body.servings = JNull


\* a time field of a response is null or a whole number of minutes from 1 to 600
ValidMinutes(v) == v = JNull \/ (v.t = "int" /\ v.n \in 1..600)

\* C16 as stated: in every success response the preparation time and the cook time are
\* each null or an integer from 1 to 600
C16_TimesNullOrInRange ==
  SuccessResponse =>
    /\ ValidMinutes(response[1].body.prep_time)
    /\ ValidMinutes(response[1].body.prep_time_minutes)
    /\ ValidMinutes(response[1].body.cook_time)


\* C17: finalize_response answers the rejection (reason no_recipe_content, quality_score
\* 0.0) exactly when the cleaned and de-duplicated record has fewer than 2 ingredients and
\* fewer than 2 instructions; with 2 entries or more in either list it answers a recipe,
\* whatever the score
C17_RejectedIffBothListsShort ==
  Finalized =>
    LET ingredients == clean_ingredients(fn.recipe_data.ingredients)
        cleaned_steps == clean_steps(fn.recipe_data.instructions)
        instructions == remove_editorial_watermarks(
                          IF cleaned_steps = <<>> THEN <<STEP_Sentinel>> ELSE cleaned_steps)
        both_short == Len(ingredients) < 2 /\ Len(instructions) < 2
        body == fn.result[1]
    IN /\ both_short <=> body.kind = "failure"
       /\ body.kind = "failure" =>
            body.reason = Some("no_recipe_content") /\ body.quality_score = Some(0)
       /\ ~both_short =>
            body.kind = "recipe" /\ body.ingredients = ingredients
                                 /\ body.instructions = instructions

\* two ingredient lines that differ in case only and two steps that differ in one
\* character: each list has 2 entries on entry and 1 after cleaning, and the record is
\* rejected
C17_Witness ==
  /\ Finalized
  /\ Len(fn.recipe_data.ingredients) = 2
  /\ Len(fn.recipe_data.instructions) = 2
  /\ fn.result[1] = NoRecipeContent


\* the url the finalizer was called with
FinalizerURL == IF response[1].kind = "video" THEN VideoURL ELSE url

\* C18 as stated: no success response carries quality_score 0.0
C18_NoZeroScoreSuccess ==
  SuccessResponse => response[1].body.quality_score # 0


\* C18: a record that reaches the finalizer and whose final score is 0.0 is answered as a
\* recipe with quality_score 0.0 when it has 2 entries or more in either cleaned list, and
\* as the rejection only when both lists are short
C18_ZeroScoreRejectedOnlyWithoutContent ==
  (Responded /\ response[1].kind \in {"finalize", "video"}) =>
    LET sent == SentToFinalizer
        r == cleaned_record(sent, FinalizerURL)
        base_qs == IF sent.quality_score = None THEN score_of(r) ELSE sent.quality_score[1]
        body == response[1].body
    IN clamp_quality_score(r, base_qs) = 0 =>
         IF Len(r.ingredients) >= 2 \/ Len(r.instructions) >= 2
         THEN body.kind = "recipe" /\ body.quality_score = 0
         ELSE body = NoRecipeContent

\* a page whose title is invalid, with 3 ingredients and 3 steps and no later tier: the
\* handler scores it 0.0 and the response is a recipe with quality_score 0.0
C18_Witness ==
  /\ SuccessResponse
  /\ response[1].kind = "finalize"
  /\ ~is_valid_title(response[1].recipe.title)
  /\ response[1].recipe.quality_score = 0
  /\ response[1].body.quality_score = 0


\* C19 as stated: the quality_score of every success response is the score computed from
\* the fields of that response, then clamped
C19_ScoreRecomputedFromResponse ==
  SuccessResponse =>
    LET body == response[1].body
    IN body.quality_score = clamp_quality_score(body, score_of(body))


\* C20 as stated: the body of every failure response has an error string, quality_score
\* 0.0 and a reason string
C20_FailureBodyComplete ==
  FailureResponse =>
    /\ response[1].body.error # None
    /\ response[1].body.quality_score = Some(0)
    /\ response[1].body.reason # None


\* a web request whose body parsed and carries no url (the key missing or empty)
NoUrlRequest ==
  url = <<>> /\ pc # "malformed" /\ (response = None \/ response[1].kind # "exception")

\* C21 as stated: a request with no url, with or without html, makes no extractor, fetch,
\* external-API or generative call, and is answered with a 4xx response
C21_NoUrlRejectedAtOnce ==
  NoUrlRequest =>
    /\ calls = <<>>
    /\ Responded => response[1].statusCode \in 400..499


-----------------------------------------------------------------------------
(* parse_youtube_recipe_deterministic: the description parser of the first video tier.
   Offsets are Python's: s[a:b] is SubSeq(s, a + 1, b). The texts are ASCII, so the bullet
   of the list-item pattern and the accented verb of the verb pattern match nothing here;
   the white space of a description is the space and the line feed. *)

ingredient_keywords ==
<<
   <<"I","N","G","R","E","D","I","E","N","T","S",":">>,
   <<"I","n","g","r","e","d","i","e","n","t","s",":">>,
   <<"I","N","G","R","E","D","I","E","N","T","S">>,
   <<"I","n","g","r","e","d","i","e","n","t","s">>,
   <<"I","N","G","R","E","D","I","E","N","T","S"," ","-">>,
   <<"I","n","g","r","e","d","i","e","n","t","s"," ","-">>,
   <<"I","N","G","R","E","D","I","E","N","T"," ","L","I","S","T",":">>,
   <<"I","n","g","r","e","d","i","e","n","t"," ","L","i","s","t",":">>,
   <<"W","H","A","T"," ","Y","O","U"," ","N","E","E","D",":">>,
   <<"W","h","a","t"," ","Y","o","u"," ","N","e","e","d",":">>
>>

stop_keywords ==
<<
   <<"M","E","T","H","O","D",":">>, <<"M","e","t","h","o","d",":">>,
   <<"I","N","S","T","R","U","C","T","I","O","N","S",":">>,
   <<"I","n","s","t","r","u","c","t","i","o","n","s",":">>,
   <<"D","I","R","E","C","T","I","O","N","S",":">>,
   <<"D","i","r","e","c","t","i","o","n","s",":">>, <<"S","T","E","P","S",":">>,
   <<"S","t","e","p","s",":">>
>>

instruction_keywords ==
<<
   <<"M","E","T","H","O","D",":">>, <<"M","e","t","h","o","d",":">>,
   <<"I","N","S","T","R","U","C","T","I","O","N","S",":">>,
   <<"I","n","s","t","r","u","c","t","i","o","n","s",":">>,
   <<"D","I","R","E","C","T","I","O","N","S",":">>,
   <<"D","i","r","e","c","t","i","o","n","s",":">>, <<"S","T","E","P","S",":">>,
   <<"S","t","e","p","s",":">>, <<"H","O","W"," ","T","O",":">>, <<"H","o","w"," ","t","o",":">>,
   <<"P","R","E","P","A","R","A","T","I","O","N",":">>,
   <<"P","r","e","p","a","r","a","t","i","o","n",":">>, <<"C","O","O","K","I","N","G",":">>,
   <<"C","o","o","k","i","n","g",":">>, <<"P","R","O","C","E","D","U","R","E",":">>,
   <<"P","r","o","c","e","d","u","r","e",":">>
>>

\* the alternatives of skip_patterns that start with a word, lower case (matched with IGNORECASE)
skip_words ==
<<
   <<"s","u","b","s","c","r","i","b","e">>, <<"l","i","k","e">>, <<"s","h","a","r","e">>,
   <<"f","o","l","l","o","w">>, <<"c","l","i","c","k">>, <<"w","a","t","c","h">>,
   <<"v","i","d","e","o">>, <<"c","h","a","n","n","e","l">>,
   <<"i","n","g","r","e","d","i","e","n","t","s">>, <<"i","n","g","r","e","d","i","e","n","t">>,
   <<"y","o","u"," ","w","i","l","l"," ","n","e","e","d">>, <<"y","o","u"," ","n","e","e","d">>,
   <<"f","o","r"," ","m","o","r","e">>, <<"c","h","e","c","k"," ","o","u","t">>,
   <<"v","i","s","i","t">>, <<"l","i","n","k">>, <<"w","e","b","s","i","t","e">>,
   <<"m","u","s","i","c">>, <<"s","o","n","g">>, <<"t","r","a","c","k">>,
   <<"a","u","d","i","o">>, <<"s","p","o","n","s","o","r">>,
   <<"a","d","v","e","r","t","i","s","e","m","e","n","t">>, <<"a","d">>, <<"p","r","o","m","o">>
>>

\* the verbs of the action-verb pattern
action_verbs ==
<<
   <<"h","e","a","t">>, <<"a","d","d">>, <<"m","i","x">>, <<"s","t","i","r">>,
   <<"c","o","o","k">>, <<"b","a","k","e">>, <<"f","r","y">>, <<"b","o","i","l">>,
   <<"s","i","m","m","e","r">>, <<"r","o","a","s","t">>, <<"g","r","i","l","l">>,
   <<"s","e","a","s","o","n">>, <<"d","i","c","e">>, <<"c","h","o","p">>,
   <<"s","l","i","c","e">>, <<"m","i","n","c","e">>, <<"p","o","u","r">>,
   <<"w","h","i","s","k">>, <<"b","e","a","t">>, <<"f","o","l","d">>, <<"k","n","e","a","d">>,
   <<"r","o","l","l">>, <<"c","u","t">>, <<"p","e","e","l">>, <<"g","r","a","t","e">>,
   <<"b","r","o","w","n">>, <<"c","a","r","a","m","e","l","i","z","e">>,
   <<"r","e","d","u","c","e">>, <<"t","h","i","c","k","e","n">>, <<"g","a","r","n","i","s","h">>,
   <<"s","e","r","v","e">>, <<"p","l","a","t","e">>, <<"p","r","e","h","e","a","t">>,
   <<"c","o","m","b","i","n","e">>, <<"b","l","e","n","d">>, <<"m","a","r","i","n","a","t","e">>,
   <<"r","e","s","t">>, <<"r","e","s","t","i","n","g">>
>>

servings_words ==
<<
   <<"s","e","r","v","e","s">>, <<"s","e","r","v","i","n","g","s">>, <<"m","a","k","e","s">>,
   <<"y","i","e","l","d">>
>>

YouTubeSuffix == <<"y","o","u","t","u","b","e">>

WordChars == Letters \cup Digits \cup {"_"}
WhiteSpace == {" ", "\n"}

\* s.find(p, start): the offset of the first occurrence of p at or after start, -1 without one
find(s, p, start) ==
  IF start <= Len(s) /\ Contains(From(s, start + 1), p)
    THEN start + Find(From(s, start + 1), p) - 1
    ELSE 0 - 1

\* the loop "for keyword in keywords: idx = s.find(keyword, start); if idx != -1: ... break":
\* the offset after the first keyword of the list that occurs, NoneVal when none occurs
after_first_keyword(s, keywords, start) ==
  IF \E k \in 1..Len(keywords) : find(s, keywords[k], start) # 0 - 1
    THEN LET k == Least({h \in 1..Len(keywords) : find(s, keywords[h], start) # 0 - 1})
         IN find(s, keywords[k], start) + Len(keywords[k])
    ELSE NoneVal

\* ingredients_end: the least offset of a stop keyword after the header, else len(description)
ingredients_end_of(description, ingredients_start) ==
  Least({Len(description)}
        \cup ({find(description, stop_keywords[k], ingredients_start) : k \in 1..Len(stop_keywords)}
                \ {0 - 1}))

\* s.split('\n')
split_lines(s) ==
  LET breaks == SelectSeq([i \in 1..Len(s) |-> i], LAMBDA i : s[i] = "\n")
  IN [k \in 1..(Len(breaks) + 1) |->
        SubSeq(s, IF k = 1 THEN 1 ELSE breaks[k - 1] + 1,
                  IF k = Len(breaks) + 1 THEN Len(s) ELSE breaks[k] - 1)]

\* the length of the match of ^(\d+[\.\)]\s+|\d+\s+[-]\s+|[-]\s+) on a line that starts
\* with d digits (0 when the line is no list item)
list_item_match(line, d) ==
  IF d >= 1 /\ d + 1 <= Len(line) /\ line[d + 1] \in {".", ")"} /\ Span(line, d + 2, Spaces) >= 1
    THEN d + 1 + Span(line, d + 2, Spaces)
  ELSE IF /\ d >= 1
          /\ Span(line, d + 1, Spaces) >= 1
          /\ d + Span(line, d + 1, Spaces) + 1 <= Len(line)
          /\ line[d + Span(line, d + 1, Spaces) + 1] = "-"
          /\ Span(line, d + Span(line, d + 1, Spaces) + 2, Spaces) >= 1
    THEN d + Span(line, d + 1, Spaces) + 1 + Span(line, d + Span(line, d + 1, Spaces) + 2, Spaces)
  ELSE IF line # <<>> /\ line[1] = "-" /\ Span(line, 2, Spaces) >= 1
    THEN 1 + Span(line, 2, Spaces)
  ELSE 0

list_item_prefix(line) == list_item_match(line, Span(line, 1, Digits))

\* one line of the ingredients section: the item without its marker when the line is a list
\* item of more than 3 characters, the empty text for a line that adds nothing
ingredient_of_line(line) ==
  IF list_item_prefix(line) > 0 /\ Len(strip(From(line, list_item_prefix(line) + 1))) > 3
    THEN strip(From(line, list_item_prefix(line) + 1))
    ELSE <<>>

parse_ingredient_lines(lines) ==
  SelectSeq([i \in 1..Len(lines) |-> ingredient_of_line(strip(lines[i]))], LAMBDA x : x # <<>>)

\* any(re.match(pattern, line, re.IGNORECASE) for pattern in skip_patterns)
is_skipped(low) ==
  \/ \E k \in 1..Len(skip_words) : StartsWith(low, skip_words[k])
  \/ /\ Span(low, 1, Digits) >= 1
     /\ Span(low, 1, Digits) + 2 <= Len(low)
     /\ low[Span(low, 1, Digits) + 1] = ":"
     /\ low[Span(low, 1, Digits) + 2] \in Digits

\* re.search(r'\b(heat|add|...)\b', line, re.IGNORECASE)
has_action_verb(low) ==
  \E k \in 1..Len(action_verbs) : \E i \in 1..(Len(low) - Len(action_verbs[k]) + 1) :
    /\ SubSeq(low, i, i + Len(action_verbs[k]) - 1) = action_verbs[k]
    /\ (i = 1 \/ low[i - 1] \notin WordChars)
    /\ (i + Len(action_verbs[k]) > Len(low) \/ low[i + Len(action_verbs[k])] \notin WordChars)

\* one line of the instructions section: a numbered step of more than 10 characters without
\* its marker, or an unnumbered line of 16 to 299 characters with an action verb
instruction_of_line(line) ==
  IF line = <<>> \/ is_skipped(lower(line)) THEN <<>>
  ELSE IF list_item_prefix(line) > 0
    THEN IF Len(strip(From(line, list_item_prefix(line) + 1))) > 10
           THEN strip(From(line, list_item_prefix(line) + 1))
           ELSE <<>>
  ELSE IF has_action_verb(lower(line)) /\ Len(line) > 15 /\ Len(line) < 300 THEN line
  ELSE <<>>

parse_instruction_lines(lines) ==
  SelectSeq([i \in 1..Len(lines) |-> instruction_of_line(strip(lines[i]))], LAMBDA x : x # <<>>)

\* the text after the match of (serves|servings|makes|yield)[:\s]* at position i of low has
\* n digits: the digits, else the empty text
servings_digits_at(low, i) ==
  LET ends == {i + Len(servings_words[k]) + Span(low, i + Len(servings_words[k]), {":"} \cup WhiteSpace) :
                 k \in {h \in 1..Len(servings_words) : StartsWith(From(low, i), servings_words[h])}}
      hits == {e \in ends : Span(low, e, Digits) >= 1}
  IN IF hits = {} THEN <<>>
     ELSE SubSeq(low, Least(hits), Least(hits) + Span(low, Least(hits), Digits) - 1)

\* servings: int(group(2)) of the first match of the servings pattern, 4 without a match;
\* returned as str(servings), None when it is 0
parsed_servings(low) ==
  IF \E i \in 1..Len(low) : servings_digits_at(low, i) # <<>>
    THEN LET i == Least({h \in 1..Len(low) : servings_digits_at(low, h) # <<>>})
         IN IF digits_value(servings_digits_at(low, i)) = 0 THEN JNull
            ELSE JStr(NumStr(digits_value(servings_digits_at(low, i))))
    ELSE JStr(<<"4">>)

\* re.sub(r'\s*-\s*YouTube$', '', title, flags=re.IGNORECASE)
without_youtube_suffix(title) ==
  IF /\ EndsWith(lower(title), YouTubeSuffix)
     /\ Len(title) - 7 - SpanBack(title, Len(title) - 6, Spaces) >= 1
     /\ title[Len(title) - 7 - SpanBack(title, Len(title) - 6, Spaces)] = "-"
    THEN LET dash == Len(title) - 7 - SpanBack(title, Len(title) - 6, Spaces)
         IN Take(title, dash - 1 - SpanBack(title, dash, Spaces))
    ELSE title

\* re.sub(r'\s*\|.*$', '', title)
without_bar_tail(title) ==
  IF Contains(title, <<"|">>)
    THEN Take(title, Find(title, <<"|">>) - 1 - SpanBack(title, Find(title, <<"|">>), Spaces))
    ELSE title

\* the ingredients of the section between the header and the first stop keyword
ingredients_from(description, ingredients_start) ==
  IF ingredients_start = NoneVal THEN <<>>
  ELSE parse_ingredient_lines(
         split_lines(SubSeq(description, ingredients_start + 1,
                            ingredients_end_of(description, ingredients_start))))

\* the instructions of the text after the first instruction keyword
instructions_from(description, instructions_start) ==
  IF instructions_start = NoneVal THEN <<>>
  ELSE parse_instruction_lines(split_lines(From(description, instructions_start + 1)))

\* search_start: the end of the ingredients section, 0 without one
search_start_of(description, ingredients_start) ==
  IF ingredients_start = NoneVal THEN 0 ELSE ingredients_end_of(description, ingredients_start)

\* Tier 1: parse_youtube_recipe_deterministic(title, description)
parse_youtube_recipe_deterministic(title, description) ==
  [title |-> strip(without_bar_tail(without_youtube_suffix(title))),
   ingredients |-> ingredients_from(description, after_first_keyword(description, ingredient_keywords, 0)),
   instructions |->
     instructions_from(description,
       after_first_keyword(description, instruction_keywords,
         search_start_of(description, after_first_keyword(description, ingredient_keywords, 0)))),
   servings |-> parsed_servings(lower(description))]


-----------------------------------------------------------------------------
(* The video pipeline: lambda_handler on a YouTube or TikTok URL, with
   extract_youtube_recipe and extract_tiktok_recipe taken one tier at a time.
   fn holds the locals of the extractor, calls the requests that leave it. *)

T_Video == <<"F","r","e","s","h"," ","E","g","g"," ","P","a","s","t","a"," ","-"," ","Y","o","u","T","u","b","e">>
T_VideoClean == <<"F","r","e","s","h"," ","E","g","g"," ","P","a","s","t","a">>
D_Claim == <<"I","N","G","R","E","D","I","E","N","T","S",":","\n","1","."," ","F","l","o","u","r","\n","2","."," ","E","g","g","\n","M","E","T","H","O","D",":","\n","1","."," ","M","i","x",".","\n","2","."," ","B","a","k","e",".">>
D_Recipe == <<"I","n","g","r","e","d","i","e","n","t","s",":","\n","-"," ","2"," ","c","u","p","s"," ","f","l","o","u","r","\n","-"," ","3"," ","e","g","g","s","\n","M","e","t","h","o","d",":","\n","1","."," ","M","i","x"," ","t","h","e"," ","f","l","o","u","r"," ","a","n","d"," ","e","g","g","s",".","\n","2","."," ","K","n","e","a","d"," ","t","h","e"," ","d","o","u","g","h"," ","w","e","l","l",".","\n","S","e","r","v","e","s"," ","6">>
D_List == <<"W","h","a","t"," ","Y","o","u"," ","N","e","e","d",":","\n","-"," ","2"," ","c","u","p","s"," ","f","l","o","u","r","\n","-"," ","3"," ","l","a","r","g","e"," ","e","g","g","s","\n","T","h","e"," ","m","e","t","h","o","d"," ","i","s"," ","s","h","o","w","n"," ","i","n"," ","t","h","e"," ","v","i","d","e","o",".">>
D_Short == <<"E","n","j","o","y","!">>
ING_Transcript == <<" ","s","p","o","o","n","s"," ","o","f"," ","o","l","i","v","e"," ","o","i","l">>
ING_Generated == <<" ","p","i","n","c","h","e","s"," ","o","f"," ","s","a","l","t">>
STEP_Transcript == <<"R","o","l","l"," ","t","h","e"," ","s","h","e","e","t","s"," ","f","o","r"," ">>
STEP_Generated == <<"S","i","m","m","e","r"," ","t","h","e"," ","s","a","u","c","e"," ","f","o","r"," ">>

\* what the metadata fetch can deliver as the description of a video
VideoDescriptions == {D_Claim, D_Recipe, D_List, D_Short}

\* metadata of an extractor record: without a metadata key tier_used is '' and
\* ai_enhanced is FALSE
VideoMetadata(tier_used, ai_enhanced) ==
  [tier_used |-> tier_used, full_recipe |-> FALSE, bot_wall_detected |-> FALSE, ai_error |-> "",
   ai_enhanced |-> ai_enhanced]

\* a record of the video extractors; quality_score is None without the key, Some(NoneVal)
\* for a JSON null and Some(n) for n/100000
VideoRecord(title, ingredients, instructions, servings, score) ==
  [title |-> title, ingredients |-> ingredients, instructions |-> instructions,
   image |-> IMG_Other, servings |-> servings, prep_time |-> JNull, prep_time_minutes |-> JNull,
   cook_time |-> JNull, quality_score |-> score, metadata |-> VideoMetadata("", FALSE)]

\* the sizes (ingredients, instructions) of the replies of the generative model
ReplyShapes == {<<0, 0>>, <<1, 0>>, <<3, 0>>, <<0, 3>>, <<1, 1>>, <<3, 3>>}

\* parse_youtube_recipe_ai_description: raises (None) or returns the JSON object of the reply
DescriptionReplies ==
  {None}
  \cup {Some(VideoRecord(T_VideoClean, Ingredients(s[1], ING_Suffix),
                         Steps(s[2], STEP_Prefix, STEP_Suffix), JNull, None)) : s \in ReplyShapes}
  \cup {Some(VideoRecord(T_VideoClean, Ingredients(s[1], ING_Suffix),
                         Steps(s[2], STEP_Prefix, STEP_Suffix), JNull, Some(NoneVal))) :
          s \in {<<3, 0>>, <<0, 3>>}}

\* parse_youtube_recipe_ai_transcript: raises (None) or returns the JSON object of the reply
TranscriptReplies ==
  {None}
  \cup {Some(VideoRecord(T_VideoClean, Ingredients(s[1], ING_Transcript),
                         Steps(s[2], STEP_Transcript, STEP_Suffix), JStr(<<"2">>), None)) :
          s \in ReplyShapes}
  \cup {Some(VideoRecord(T_VideoClean, Ingredients(3, ING_Transcript), <<>>, JStr(<<"2">>),
                         Some(NoneVal)))}

\* generate_instructions_from_ingredients returns [] or at least 3 steps,
\* generate_instructions_from_transcript [] or at least 2
GeneratedSteps(n) == Steps(n, STEP_Generated, STEP_Suffix)

\* generate_recipe_from_title returns {} (None) or a recipe of 3 and 3
TitleRecipe ==
  VideoRecord(T_VideoClean, Ingredients(3, ING_Generated), GeneratedSteps(3), JStr(<<"4">>), None)

\* len(transcript.strip()) of what fetch_youtube_transcript returns ('' on every failure)
TranscriptLengths == {0, 100, 150}

\* tier_used of each route
tier_names ==
  [youtube |-> [deterministic |-> "youtube_deterministic",
                description |-> "youtube_openai_description",
                enhanced |-> "youtube_openai_description_enhanced",
                title |-> "youtube_title_based_generation"],
   tiktok |-> [deterministic |-> "tiktok_deterministic",
               description |-> "tiktok_openai_description",
               enhanced |-> "tiktok_openai_description_enhanced",
               title |-> "tiktok_title_based_generation"]]

\* validate_youtube_result with a strict rule that asks for 2 entries in either list
validate_youtube_result_either(result, strict) ==
  IF Len(result.ingredients) >= 2 /\ Len(result.instructions) >= 2
    THEN [is_valid |-> TRUE, reason |-> IF strict THEN "success" ELSE "success (full)"]
  ELSE IF Len(result.ingredients) >= 2 \/ Len(result.instructions) >= 2
    THEN [is_valid |-> TRUE, reason |-> IF strict THEN "success" ELSE "success (partial)"]
  ELSE IF strict THEN [is_valid |-> FALSE, reason |-> "insufficient"]
  ELSE IF Len(result.ingredients) >= 1 /\ Len(result.instructions) >= 1
    THEN [is_valid |-> TRUE, reason |-> "success (minimal)"]
  ELSE [is_valid |-> FALSE, reason |-> "insufficient"]

\* validate_youtube_result(result, tier_name, strict): is_valid and the kind of the reason
validate_youtube_result(result, strict) ==
  IF Len(result.ingredients) >= 2 /\ Len(result.instructions) >= 2
    THEN [is_valid |-> TRUE, reason |-> IF strict THEN "success" ELSE "success (full)"]
  ELSE IF strict THEN [is_valid |-> FALSE, reason |-> "insufficient"]
  ELSE IF Len(result.ingredients) >= 2 \/ Len(result.instructions) >= 2
    THEN [is_valid |-> TRUE, reason |-> "success (partial)"]
  ELSE IF Len(result.ingredients) >= 1 /\ Len(result.instructions) >= 1
    THEN [is_valid |-> TRUE, reason |-> "success (minimal)"]
  ELSE [is_valid |-> FALSE, reason |-> "insufficient"]

\* "partial" in reason or "minimal" in reason
is_partial(reason) == reason \in {"success (partial)", "success (minimal)"}

\* result.get('quality_score', 0.5) * tenths/10; None when the product raises TypeError
\* (the reply has "quality_score": null)
times_quality(result, tenths) ==
  IF result.quality_score = None THEN Some((50000 * tenths) \div 10)
  ELSE IF result.quality_score[1] = NoneVal THEN None
  ELSE Some((result.quality_score[1] * tenths) \div 10)

\* the extractor before its first statement
ExtractorStart(key) ==
  [op |-> "extract_video", at |-> "metadata", openai_key |-> key, title |-> <<>>,
   description |-> <<>>, tier_failures |-> <<>>, tier2_result |-> None, tier3_result |-> None,
   transcript |-> 0, best_tier |-> "", result |-> None, error |-> ""]

\* the variables of the handler that a video request leaves alone
VideoUnchanged ==
  UNCHANGED <<cfg, url, html, recipe_data, quality_score, spoonacular_result, best_confidences,
              deterministic_result, ai_data, ai_responses, ai_result, accepted_at>>

InitVideo ==
  /\ pc \in {"youtube", "tiktok"}
  /\ cfg \in {c \in Configs : c.ai_enabled /\ c.spoon_enabled /\ c.spoon_api_key
                               /\ c.min_trigger_score = 60000}
  /\ url = VideoURL
  /\ html = FALSE
  /\ recipe_data = None
  /\ quality_score = 0
  /\ spoonacular_result = None
  /\ best_confidences = NoConfidences
  /\ deterministic_result = None
  /\ ai_data = None
  /\ ai_responses = <<>>
  /\ ai_result = None
  /\ calls = <<>>
  /\ accepted_at = ""
  /\ response = None
  /\ \E key \in BOOLEAN : fn = ExtractorStart(key)

\* the extractor is at the given place of a request that is not answered yet
ExtractorAt(place) == pc \in {"youtube", "tiktok"} /\ fn.op = "extract_video" /\ fn.at = place

\* return result
Returned(f, result) == [f EXCEPT !.at = "returned", !.result = Some(result)]

\* the record a tier returns: the tier's name and flag in the metadata
Tagged(result, tier_used, ai_enhanced) ==
  [result EXCEPT !.metadata = VideoMetadata(tier_used, ai_enhanced)]

\* extract_youtube_recipe: fetch_youtube_metadata is outside every try, its exception leaves
\* the extractor
FetchYouTubeMetadata ==
  /\ ExtractorAt("metadata")
  /\ pc = "youtube"
  /\ calls' = Append(calls, "youtube_metadata")
  /\ \E fetched \in {None} \cup {Some(d) : d \in VideoDescriptions} :
       fn' = IF fetched = None
               THEN [fn EXCEPT !.at = "raised", !.error = "metadata"]
               ELSE [fn EXCEPT !.at = "tier1", !.title = T_Video, !.description = fetched[1]]
  /\ UNCHANGED <<pc, response>>
  /\ VideoUnchanged

\* extract_tiktok_recipe: when fetch_tiktok_metadata raises, generate_recipe_from_title is
\* tried on 'TikTok Recipe <id>' and a recipe with 3 ingredients is returned
FetchTikTokMetadata ==
  /\ ExtractorAt("metadata")
  /\ pc = "tiktok"
  /\ \E fetched \in {None} \cup {Some(d) : d \in VideoDescriptions},
        generated \in (IF fn.openai_key THEN {None, Some(TitleRecipe)} ELSE {None}) :
       /\ fn' = IF fetched # None
                  THEN [fn EXCEPT !.at = "tier1", !.title = T_Video, !.description = fetched[1]]
                ELSE IF generated # None
                  THEN Returned([fn EXCEPT !.tier_failures = <<"Failed to fetch TikTok metadata">>],
                                [Tagged(generated[1], "tiktok_title_fallback", TRUE)
                                   EXCEPT !.image = <<>>, !.quality_score = Some(50000)])
                ELSE [fn EXCEPT !.at = "raised", !.error = "metadata",
                                !.tier_failures = <<"Failed to fetch TikTok metadata">>]
       /\ calls' = IF fetched = None /\ fn.openai_key
                     THEN calls \o <<"tiktok_metadata", "openai_title">>
                     ELSE Append(calls, "tiktok_metadata")
  /\ UNCHANGED <<pc, response>>
  /\ VideoUnchanged


\* s.strip() of a text with spaces and line feeds
strip_white(s) ==
  IF Span(s, 1, WhiteSpace) = Len(s) THEN <<>>
  ELSE SubSeq(s, 1 + Span(s, 1, WhiteSpace), Len(s) - SpanBack(s, Len(s) + 1, WhiteSpace))

\* the dict of the description parser as an extractor record (no quality_score key)
parsed_record(parsed) ==
  VideoRecord(parsed.title, parsed.ingredients, parsed.instructions, parsed.servings, None)

\* Tier 1 on the parsed description: returned when the strict validation passes
tier1_outcome(f, route, result) ==
  IF validate_youtube_result(result, TRUE).is_valid
    THEN Returned(f, Tagged(result, tier_names[route].deterministic, FALSE))
    ELSE [f EXCEPT !.at = "tier2", !.tier_failures = Append(@, "Tier 1: insufficient")]

\* Tier 1: deterministic parsing of the description
Tier1 ==
  /\ ExtractorAt("tier1")
  /\ fn' = tier1_outcome(fn, pc, parsed_record(parse_youtube_recipe_deterministic(fn.title, fn.description)))
  /\ UNCHANGED <<pc, calls, response>>
  /\ VideoUnchanged

\* len(ingredients) >= 2 and len(instructions) < 2
has_missing_instructions(result) == Len(result.ingredients) >= 2 /\ Len(result.instructions) < 2

\* Tier 2 on the reply of the generative model, which tier2_result keeps: returned when it
\* is valid and has its instructions (the product of a null score raises, which the tier
\* catches after the metadata is set), passed to Tier 2.5 when the instructions are
\* missing, recorded as a failure when it is invalid
description_tier_outcome(f, route, result, validation) ==
  IF validation.is_valid /\ ~has_missing_instructions(result)
    THEN IF ~is_partial(validation.reason)
           THEN Returned([f EXCEPT !.tier2_result = Some(Tagged(result, tier_names[route].description, FALSE))],
                         Tagged(result, tier_names[route].description, FALSE))
         ELSE IF times_quality(result, 7) = None
           THEN [f EXCEPT !.tier2_result = Some(Tagged(result, tier_names[route].description, FALSE)),
                          !.tier_failures = Append(@, "Tier 2 error"),
                          !.at = "tier26"]
         ELSE Returned([f EXCEPT !.tier2_result = Some(Tagged(result, tier_names[route].description, FALSE))],
                       [Tagged(result, tier_names[route].description, FALSE)
                          EXCEPT !.quality_score = times_quality(result, 7)])
  ELSE IF validation.is_valid
    THEN [f EXCEPT !.tier2_result = Some(result), !.at = "tier25"]
  ELSE [f EXCEPT !.tier2_result = Some(result),
                 !.tier_failures = Append(@, "Tier 2: insufficient"),
                 !.at = "tier26"]

\* Tier 2: the generative model on the description, when there is a key and the
\* description has more than 50 characters
Tier2 ==
  /\ ExtractorAt("tier2")
  /\ IF ~fn.openai_key
       THEN /\ fn' = [fn EXCEPT !.at = "tier26",
                                !.tier_failures = Append(@, "Tier 2: OPENAI_API_KEY not set")]
            /\ calls' = calls
     ELSE IF Len(strip_white(fn.description)) <= 50
       THEN /\ fn' = [fn EXCEPT !.at = "tier26",
                                !.tier_failures = Append(@, "Tier 2: description too short")]
            /\ calls' = calls
     ELSE /\ calls' = Append(calls, "openai_description")
          /\ \E reply \in DescriptionReplies :
               fn' = IF reply = None
                       THEN [fn EXCEPT !.at = "tier26",
                                       !.tier_failures = Append(@, "Tier 2 error")]
                       ELSE description_tier_outcome(fn, pc, reply[1],
                                                     validate_youtube_result(reply[1], FALSE))
  /\ UNCHANGED <<pc, response>>
  /\ VideoUnchanged

\* the Tier 2 record with the generated instructions and the metadata of Tier 2.5
enhanced_description(result, route, generated) ==
  [Tagged(result, tier_names[route].enhanced, TRUE) EXCEPT !.instructions = generated]

\* Tier 2.5 on the generated instructions: returned with at least 3 of them; nothing is
\* added to tier_failures when the generation fails or raises
instructions_tier_outcome(f, route, result, generated) ==
  IF Len(generated) >= 3
    THEN IF times_quality(result, 11) = None
           THEN [f EXCEPT !.tier2_result = Some(enhanced_description(result, route, generated)),
                          !.at = "tier26"]
           ELSE Returned([f EXCEPT !.tier2_result = Some(enhanced_description(result, route, generated))],
                         [enhanced_description(result, route, generated)
                            EXCEPT !.quality_score = times_quality(result, 11)])
    ELSE [f EXCEPT !.at = "tier26"]

\* Tier 2.5: generate_instructions_from_ingredients for a valid Tier 2 record without
\* instructions
Tier25 ==
  /\ ExtractorAt("tier25")
  /\ calls' = Append(calls, "openai_instructions")
  /\ \E n \in {0, 3} :
       fn' = instructions_tier_outcome(fn, pc, fn.tier2_result[1], GeneratedSteps(n))
  /\ UNCHANGED <<pc, response>>
  /\ VideoUnchanged

\* tier2_result and len(tier2_result.get('ingredients', [])) > 0
tier2_had_ingredients(f) == f.tier2_result # None /\ Len(f.tier2_result[1].ingredients) > 0

\* where the extractor goes on after Tier 2.6: extract_tiktok_recipe has no transcript tier
after_title_tier(route) == IF route = "youtube" THEN "tier3" ELSE "fallback"

\* Tier 2.6: generate_recipe_from_title when Tier 2 found no ingredient; it returns {}
\* without a key, and nothing is added to tier_failures when it produces nothing
Tier26 ==
  /\ ExtractorAt("tier26")
  /\ IF tier2_had_ingredients(fn) \/ ~fn.openai_key \/ Len(strip_white(fn.title)) < 5
       THEN /\ fn' = [fn EXCEPT !.at = after_title_tier(pc)]
            /\ calls' = calls
       ELSE /\ calls' = Append(calls, "openai_title")
            /\ \E generated \in {None, Some(TitleRecipe)} :
                 fn' = IF generated = None
                         THEN [fn EXCEPT !.at = after_title_tier(pc)]
                         ELSE Returned(fn, [Tagged(generated[1], tier_names[pc].title, TRUE)
                                              EXCEPT !.quality_score = Some(70000)])
  /\ UNCHANGED <<pc, response>>
  /\ VideoUnchanged

\* the end of a valid Tier 3: the metadata of the tier unless Tier 4 has set its own, and
\* the score 0.35 for a partial record without a quality_score key
transcript_return(result, reason) ==
  [result EXCEPT
     !.metadata = IF @.tier_used = "" THEN VideoMetadata("youtube_openai_transcript", FALSE) ELSE @,
     !.quality_score = IF is_partial(reason) /\ @ = None THEN Some(35000) ELSE @]

\* Tier 3 on the reply of the generative model, which tier3_result keeps
transcript_tier_outcome(f, result, validation) ==
  IF ~validation.is_valid
    THEN [f EXCEPT !.tier3_result = Some(result),
                   !.tier_failures = Append(@, "Tier 3: insufficient"),
                   !.at = "fallback"]
  ELSE IF has_missing_instructions(result)
    THEN [f EXCEPT !.tier3_result = Some(result), !.at = "tier4"]
  ELSE Returned([f EXCEPT !.tier3_result = Some(transcript_return(result, validation.reason))],
                transcript_return(result, validation.reason))

\* Tier 3 of extract_youtube_recipe: the generative model on the transcript, when there is
\* a key and the transcript has more than 100 characters
Tier3 ==
  /\ ExtractorAt("tier3")
  /\ IF ~fn.openai_key
       THEN /\ fn' = [fn EXCEPT !.at = "fallback",
                                !.tier_failures = Append(@, "Tier 3: OPENAI_API_KEY not set")]
            /\ calls' = calls
       ELSE \E length \in TranscriptLengths :
              IF length <= 100
                THEN /\ calls' = Append(calls, "transcript")
                     /\ fn' = [fn EXCEPT !.at = "fallback", !.transcript = length,
                                         !.tier_failures = Append(@, "Tier 3: transcript unavailable or too short")]
                ELSE /\ calls' = calls \o <<"transcript", "openai_transcript">>
                     /\ \E reply \in TranscriptReplies :
                          fn' = IF reply = None
                                  THEN [fn EXCEPT !.at = "fallback", !.transcript = length,
                                                  !.tier_failures = Append(@, "Tier 3 error")]
                                  ELSE transcript_tier_outcome(
                                         [fn EXCEPT !.transcript = length], reply[1],
                                         validate_youtube_result(reply[1], FALSE))
  /\ UNCHANGED <<pc, response>>
  /\ VideoUnchanged

\* the Tier 3 record with the generated instructions and the metadata of Tier 4
enhanced_transcript(result, generated) ==
  [Tagged(result, "youtube_openai_transcript_tier4_enhanced", TRUE) EXCEPT !.instructions = generated]

\* Tier 4 inside Tier 3 on the generated instructions: with at least 2 of them the record
\* takes them (the product of a null score raises, which Tier 3 records as its error);
\* the record is returned either way
transcript_generation_outcome(f, result, reason, generated) ==
  IF Len(generated) < 2
    THEN Returned([f EXCEPT !.tier3_result = Some(transcript_return(result, reason))],
                  transcript_return(result, reason))
  ELSE IF times_quality(result, 12) = None
    THEN [f EXCEPT !.tier3_result = Some(enhanced_transcript(result, generated)),
                   !.tier_failures = Append(@, "Tier 3 error"),
                   !.at = "fallback"]
  ELSE Returned([f EXCEPT !.tier3_result = Some(enhanced_transcript(result, generated))],
                [enhanced_transcript(result, generated)
                   EXCEPT !.quality_score = times_quality(result, 12)])

\* Tier 4 inside Tier 3: generate_instructions_from_transcript for a valid transcript
\* record without instructions
Tier4 ==
  /\ ExtractorAt("tier4")
  /\ calls' = Append(calls, "openai_transcript_instructions")
  /\ \E n \in {0, 2} :
       fn' = transcript_generation_outcome(
               fn, fn.tier3_result[1],
               validate_youtube_result(fn.tier3_result[1], FALSE).reason, GeneratedSteps(n))
  /\ UNCHANGED <<pc, response>>
  /\ VideoUnchanged


\* a or b on two JSON values
json_or(a, b) == IF JTruthy(a) THEN a ELSE b

\* a hybrid_result dict: quality 0.75, no author keys
HybridRecord(title, ingredients, instructions, servings, tier_used) ==
  [VideoRecord(title, ingredients, instructions, servings, Some(75000))
     EXCEPT !.metadata = VideoMetadata(tier_used, FALSE)]

\* the list of the record that has more entries, the first record on a tie
longer_list(a, b) == IF Len(a) >= Len(b) THEN a ELSE b

\* hybrid merging of the Tier 2 record t2 and the Tier 3 record t3: None without a merge
hybrid_result(t2, t3) ==
  IF Len(t2.ingredients) >= 2 /\ Len(t2.instructions) = 0 /\ Len(t3.instructions) >= 2
    THEN Some(HybridRecord(t2.title, t2.ingredients, t3.instructions,
                           json_or(t2.servings, t3.servings), "youtube_hybrid_t2_ing_t3_inst"))
  ELSE IF Len(t3.ingredients) >= 2 /\ Len(t3.instructions) = 0 /\ Len(t2.instructions) >= 2
    THEN Some(HybridRecord(t3.title, t3.ingredients, t2.instructions,
                           json_or(t3.servings, t2.servings), "youtube_hybrid_t3_ing_t2_inst"))
  ELSE IF /\ Len(t2.ingredients) >= 1 \/ Len(t2.instructions) >= 1
          /\ Len(t3.ingredients) >= 1 \/ Len(t3.instructions) >= 1
          /\ Len(longer_list(t2.ingredients, t3.ingredients)) >= 2
          /\ Len(longer_list(t2.instructions, t3.instructions)) >= 2
    THEN Some(HybridRecord(t2.title, longer_list(t2.ingredients, t3.ingredients),
                           longer_list(t2.instructions, t3.instructions),
                           json_or(t2.servings, t3.servings), "youtube_hybrid_best"))
  ELSE None

\* the hybrid of the two saved records, None when one of them is missing
hybrid_of(f) ==
  IF f.tier2_result # None /\ f.tier3_result # None
    THEN hybrid_result(f.tier2_result[1], f.tier3_result[1])
    ELSE None

\* ing_count >= 1 or inst_count >= 1
has_content(saved) ==
  saved # None /\ (Len(saved[1].ingredients) >= 1 \/ Len(saved[1].instructions) >= 1)

\* len(ingredients) + len(instructions)
entries(result) == Len(result.ingredients) + Len(result.instructions)

\* best_tier of the final fallback: Tier 2 with content, replaced by a Tier 3 with content
\* when there is no best yet or Tier 3 has more entries; '' when nothing is usable
best_tier_of(f) ==
  IF has_content(f.tier3_result)
     /\ (~has_content(f.tier2_result) \/ entries(f.tier3_result[1]) > entries(f.tier2_result[1]))
    THEN "Tier 3 (fallback)"
  ELSE IF has_content(f.tier2_result) THEN "Tier 2 (fallback)"
  ELSE ""

\* best_result of a best_tier
best_result_of(f, best_tier) ==
  IF best_tier = "Tier 3 (fallback)" THEN f.tier3_result[1] ELSE f.tier2_result[1]

\* best_tier.lower().replace(' ', '_').replace('+', '_plus')
fallback_tier_used ==
  [t \in {"Tier 2 (fallback)", "Tier 3 (fallback)",
          "Tier 2 (fallback) + Tier 4 (instruction generation)",
          "Tier 3 (fallback) + Tier 4 (instruction generation)"} |->
     IF t = "Tier 2 (fallback)" THEN "tier_2_(fallback)"
     ELSE IF t = "Tier 3 (fallback)" THEN "tier_3_(fallback)"
     ELSE IF t = "Tier 2 (fallback) + Tier 4 (instruction generation)"
       THEN "tier_2_(fallback)__plus_tier_4_(instruction_generation)"
     ELSE "tier_3_(fallback)__plus_tier_4_(instruction_generation)"]

\* best_tier after Tier 4 has generated the instructions
with_tier4 ==
  [t \in {"Tier 2 (fallback)", "Tier 3 (fallback)"} |->
     IF t = "Tier 2 (fallback)" THEN "Tier 2 (fallback) + Tier 4 (instruction generation)"
     ELSE "Tier 3 (fallback) + Tier 4 (instruction generation)"]

\* the end of the final fallback: best_result['metadata'] is assigned a new dict with
\* tier_used only, and the score is 0.3 when the record has no quality_score key
fallback_return(best_result, best_tier) ==
  [best_result EXCEPT
     !.metadata = VideoMetadata(fallback_tier_used[best_tier], FALSE),
     !.quality_score = IF @ = None THEN Some(30000) ELSE @]

\* after the tiers: the hybrid merge, else the best saved record (by way of Tier 4 when
\* extract_youtube_recipe finds it without instructions), else the exception that
\* lists tier_failures
AfterTiers ==
  /\ ExtractorAt("fallback")
  /\ fn' = IF hybrid_of(fn) # None THEN Returned(fn, hybrid_of(fn)[1])
           ELSE IF best_tier_of(fn) = "" THEN [fn EXCEPT !.at = "raised", !.error = "all tiers failed"]
           ELSE IF pc = "youtube" /\ has_missing_instructions(best_result_of(fn, best_tier_of(fn)))
             THEN [fn EXCEPT !.at = "fallback_tier4", !.best_tier = best_tier_of(fn)]
           ELSE Returned([fn EXCEPT !.best_tier = best_tier_of(fn)],
                         fallback_return(best_result_of(fn, best_tier_of(fn)), best_tier_of(fn)))
  /\ UNCHANGED <<pc, calls, response>>
  /\ VideoUnchanged

\* Tier 4 of the final fallback on the generated instructions: with at least 2 of them
\* the record takes them, ai_enhanced is set, and a score below 0.5 becomes 0.6 (the
\* comparison of a null score raises, which is caught)
generated_fallback(best_result, generated) ==
  [best_result EXCEPT
     !.instructions = generated,
     !.metadata.ai_enhanced = TRUE,
     !.quality_score = IF @ = None THEN Some(60000)
                       ELSE IF @[1] # NoneVal /\ @[1] < 50000 THEN Some(60000)
                       ELSE @]

fallback_generation_outcome(f, best_result, generated) ==
  IF Len(generated) >= 2
    THEN Returned([f EXCEPT !.best_tier = with_tier4[f.best_tier]],
                  fallback_return(generated_fallback(best_result, generated),
                                  with_tier4[f.best_tier]))
    ELSE Returned(f, fallback_return(best_result, f.best_tier))

\* Tier 4 of the final fallback: the transcript is fetched again when Tier 3 left less
\* than 100 characters, and generate_instructions_from_transcript runs on a transcript of
\* at least 100
FallbackTier4 ==
  /\ ExtractorAt("fallback_tier4")
  /\ \E length \in (IF fn.transcript < 100 THEN TranscriptLengths ELSE {fn.transcript}),
        n \in {0, 2} :
       /\ (length < 100 \/ ~fn.openai_key) => n = 0
       /\ calls' = calls \o (IF fn.transcript < 100 THEN <<"transcript">> ELSE <<>>)
                         \o (IF length >= 100 /\ fn.openai_key
                               THEN <<"openai_transcript_instructions">> ELSE <<>>)
       /\ fn' = fallback_generation_outcome([fn EXCEPT !.transcript = length],
                                            best_result_of(fn, fn.best_tier), GeneratedSteps(n))
  /\ UNCHANGED <<pc, response>>
  /\ VideoUnchanged

\* lambda_handler: the record of the extractor is formatted and finalized, its exception is
\* answered by the extraction-failed response
VideoRespond ==
  /\ pc \in {"youtube", "tiktok"}
  /\ fn.op = "extract_video"
  /\ fn.at \in {"returned", "raised"}
  /\ response' = IF fn.at = "raised" THEN VideoFailure(pc)
                 ELSE Some([kind |-> "video", statusCode |-> 200,
                            recipe |-> format_video_record(fn.result[1]),
                            body |-> finalize_response(format_video_record(fn.result[1]), VideoURL)])
  /\ pc' = "done"
  /\ UNCHANGED <<fn, calls>>
  /\ VideoUnchanged

NextVideo ==
  \/ FetchYouTubeMetadata
  \/ FetchTikTokMetadata
  \/ Tier1
  \/ Tier2
  \/ Tier25
  \/ Tier26
  \/ Tier3
  \/ Tier4
  \/ AfterTiers
  \/ FallbackTier4
  \/ VideoRespond

SpecVideo == InitVideo /\ [][NextVideo]_vars


-----------------------------------------------------------------------------
(* Claims about the video pipeline *)

\* the extractor of a YouTube request is past its first tier on the description d
PastTier1On(d) ==
  /\ pc = "youtube"
  /\ fn.op = "extract_video"
  /\ fn.description = d
  /\ fn.at \notin {"metadata", "tier1"}

\* C22 as stated: on the description 'INGREDIENTS:\n1. Flour\n2. Egg\nMETHOD:\n1. Mix.\n2. Bake.'
\* the deterministic parser yields 2 ingredients and 2 instructions, the strict
\* validation passes and the extractor returns with tier_used youtube_deterministic
C22_ExampleAcceptedAtTier1 ==
  PastTier1On(D_Claim) =>
    /\ Len(parse_youtube_recipe_deterministic(fn.title, D_Claim).ingredients) = 2
    /\ Len(parse_youtube_recipe_deterministic(fn.title, D_Claim).instructions) = 2
    /\ validate_youtube_result(parse_youtube_recipe_deterministic(fn.title, D_Claim), TRUE).is_valid
    /\ fn.at = "returned"
    /\ fn.result[1].metadata.tier_used = "youtube_deterministic"


\* the extractor has run its first tier
RanTier1 == fn.op = "extract_video" /\ fn.title # <<>> /\ fn.at # "tier1"

\* the extractor has returned the record of the deterministic tier
AcceptedAtTier1 ==
  /\ fn.op = "extract_video"
  /\ fn.result # None
  /\ fn.result[1].metadata.tier_used \in {"youtube_deterministic", "tiktok_deterministic"}

\* 2 ingredients and 2 instructions at least
TwoAndTwo(result) == Len(result.ingredients) >= 2 /\ Len(result.instructions) >= 2

\* the deterministic tier is accepted exactly on 2 and 2, and then no request has gone
\* to the generative model or to the transcript service
Tier1AcceptedIffTwoAndTwo ==
  /\ RanTier1 =>
       (AcceptedAtTier1 <=> TwoAndTwo(parse_youtube_recipe_deterministic(fn.title, fn.description)))
  /\ AcceptedAtTier1 => calls \in {<<"youtube_metadata">>, <<"tiktok_metadata">>}

\* the description tier has left a record that passes the relaxed validation
Tier2Valid ==
  fn.tier2_result # None /\ validate_youtube_result(fn.tier2_result[1], FALSE).is_valid

\* C23 as stated: the deterministic tier is accepted exactly on 2 and 2 and then nothing
\* is asked of the generative model or the transcript service, and the transcript tier
\* runs only after the description tier failed its validation
C23_LaterTiersOnlyAfterFailedValidation ==
  /\ Tier1AcceptedIffTwoAndTwo
  /\ (fn.op = "extract_video" /\ InCalls("transcript")) => ~Tier2Valid

\* C23: the deterministic tier is accepted exactly on 2 and 2 and then nothing is asked of
\* the generative model or the transcript service; the transcript tier runs after a
\* description tier that did not return: it was skipped or raised, it failed its
\* validation, or it passed with at least 2 ingredients and the synthesis of the missing
\* instructions was tried without a returned record
C23_LaterTiersOnlyAfterNoReturn ==
  /\ Tier1AcceptedIffTwoAndTwo
  /\ (fn.op = "extract_video" /\ InCalls("transcript") /\ Tier2Valid) =>
       \/ Len(fn.tier2_result[1].ingredients) >= 2 /\ InCalls("openai_instructions")
       \/ \E k \in 1..Len(fn.tier_failures) : fn.tier_failures[k] = "Tier 2 error"

C23_Witness ==
  /\ pc = "done"
  /\ InCalls("transcript")
  /\ Tier2Valid
  /\ Len(fn.tier2_result[1].instructions) = 0
  /\ ~AcceptedAtTier1
  /\ TwoAndTwo(response[1].recipe)


\* the extractor has returned a record
ExtractorReturned == fn.op = "extract_video" /\ fn.at = "returned" /\ fn.result # None

\* a has at least 2 ingredients and no instructions, b has at least 2 instructions
Complements(a, b) ==
  Len(a.ingredients) >= 2 /\ Len(a.instructions) = 0 /\ Len(b.instructions) >= 2

\* the record combines the ingredients of a with the instructions of b as a hybrid of
\* quality 0.75
HybridOf(result, a, b) ==
  /\ result.ingredients = a.ingredients
  /\ result.instructions = b.instructions
  /\ result.metadata.tier_used \in {"youtube_hybrid_t2_ing_t3_inst", "youtube_hybrid_t3_ing_t2_inst",
                                    "youtube_hybrid_best"}
  /\ result.quality_score = Some(75000)

\* C24 as stated: when the description tier and the transcript tier left complementary
\* partial results, the returned record has the ingredients of the one and the
\* instructions of the other and is a hybrid of quality 0.75
C24_ComplementaryResultsAreMerged ==
  (ExtractorReturned /\ fn.tier2_result # None /\ fn.tier3_result # None) =>
    /\ Complements(fn.tier2_result[1], fn.tier3_result[1]) =>
         HybridOf(fn.result[1], fn.tier2_result[1], fn.tier3_result[1])
    /\ Complements(fn.tier3_result[1], fn.tier2_result[1]) =>
         HybridOf(fn.result[1], fn.tier3_result[1], fn.tier2_result[1])


\* the record holds content that the generative model has synthesized: the recipe of
\* generate_recipe_from_title or the steps of the two instruction generators
Synthesized(result) ==
  \/ result.ingredients = TitleRecipe.ingredients
  \/ \E n \in {2, 3} : result.instructions = GeneratedSteps(n)

\* C25 as stated: every record that a video extractor returns with synthesized content
\* has metadata.ai_enhanced true
C25_SynthesizedIsTagged ==
  (ExtractorReturned /\ Synthesized(fn.result[1])) => fn.result[1].metadata.ai_enhanced


\* the metadata fetch of the request has failed
MetadataFetchFailed ==
  /\ fn.op = "extract_video"
  /\ fn.at # "metadata"
  /\ fn.title = <<>>

\* C26 as stated: after a failed metadata fetch nothing but the fetch has been requested,
\* the extractor has raised, and the request is answered by the extraction-failed response
C26_MetadataFailureIsFatal ==
  MetadataFetchFailed =>
    /\ calls \in {<<"youtube_metadata">>, <<"tiktok_metadata">>}
    /\ fn.at = "raised"
    /\ Responded => response[1].kind = "video_error"


\* the extractor has raised the error of the exhausted tiers, which lists tier_failures
AllTiersFailed == fn.op = "extract_video" /\ fn.at = "raised" /\ fn.error = "all tiers failed"

\* the entries of tier_failures that each tier can add; no statement of the extractors
\* adds one for the title synthesis
FailureReasons ==
  [deterministic |-> {"Tier 1: insufficient"},
   description |-> {"Tier 2: OPENAI_API_KEY not set", "Tier 2: description too short",
                    "Tier 2: insufficient", "Tier 2 error"},
   title |-> {},
   transcript |-> {"Tier 3: OPENAI_API_KEY not set",
                   "Tier 3: transcript unavailable or too short",
                   "Tier 3: insufficient", "Tier 3 error"}]

\* the error lists a reason of the tier
Lists(tier) == \E k \in 1..Len(fn.tier_failures) : fn.tier_failures[k] \in FailureReasons[tier]

\* C27 as stated: the error of the exhausted tiers lists a reason for every tier that was
\* attempted: the deterministic parse, the generative description, the title synthesis
\* and the transcript
C27_EveryAttemptedTierIsListed ==
  AllTiersFailed =>
    /\ Lists("deterministic")
    /\ InCalls("openai_description") => Lists("description")
    /\ InCalls("openai_title") => Lists("title")
    /\ InCalls("transcript") => Lists("transcript")


-----------------------------------------------------------------------------
(* _normalize_text of finalize_response applied once and again *)

MaxNormalizeLen == 4

NormalizeChars == {"1", ".", " ", "-", "M"}

T_TwoMarkers == <<"1","."," ","2","."," ","M","i","x">>

\* the texts of at most MaxNormalizeLen characters, and '1. 2. Mix'
NormalizeInputs ==
  UNION {[1..n -> NormalizeChars] : n \in 0..MaxNormalizeLen} \cup {T_TwoMarkers}

InitNormalize ==
  /\ HandlerIdle
  /\ \E s \in NormalizeInputs : fn = [op |-> "normalize_text", s |-> s, once |-> None, twice |-> None]

\* _normalize_text(s)
NormalizeOnce ==
  /\ fn.op = "normalize_text"
  /\ fn.once = None
  /\ fn' = [fn EXCEPT !.once = Some(normalize_text(fn.s))]
  /\ HandlerUnchanged

\* _normalize_text(_normalize_text(s))
NormalizeAgain ==
  /\ fn.op = "normalize_text"
  /\ fn.once # None
  /\ fn.twice = None
  /\ fn' = [fn EXCEPT !.twice = Some(normalize_text(fn.once[1]))]
  /\ HandlerUnchanged

NextNormalize == NormalizeOnce \/ NormalizeAgain

SpecNormalize == InitNormalize /\ [][NextNormalize]_vars

\* C28 as stated: normalizing a normalized text gives the normalized text
C28_NormalizeIdempotent ==
  (fn.op = "normalize_text" /\ fn.twice # None) => fn.twice = fn.once


-----------------------------------------------------------------------------
(* The instruction de-duplication of finalize_response on its own *)

MaxDedupeSteps == 3

STEP_NumberedBake == <<"2",")"," ","B","a","k","e",".">>

\* steps that the loop drops (5 characters or fewer once normalized), a step it keeps, the
\* same step numbered and with other punctuation, and the sentinel itself
DedupeSteps ==
  {STEP_Bake, STEP_NumberedBake, STEP_Prefix \o NumStr(1) \o STEP_Suffix, STEP_Numbered,
   STEP_Sentinel}

DedupeInputs == UNION {[1..n -> DedupeSteps] : n \in 0..MaxDedupeSteps}

InitDedupe ==
  /\ HandlerIdle
  /\ \E items \in DedupeInputs : fn = [op |-> "dedupe_steps", items |-> items, result |-> None]

\* the instruction loop and the sentinel rule of finalize_response
ApplyDedupe ==
  /\ fn.op = "dedupe_steps"
  /\ fn.result = None
  /\ fn' = [fn EXCEPT !.result = Some(instructions_or_sentinel(clean_steps(fn.items)))]
  /\ HandlerUnchanged

NextDedupe == ApplyDedupe

SpecDedupe == InitDedupe /\ [][NextDedupe]_vars

Deduped == fn.op = "dedupe_steps" /\ fn.result # None

\* the loop drops the step: 5 characters or fewer once normalized, or the duplicate of a
\* step before it that is not dropped for its length
FilteredOut(items, i) ==
  \/ Len(normalize_text(items[i])) <= 5
  \/ \E j \in 1..(i - 1) :
       /\ Len(normalize_text(items[j])) > 5
       /\ is_duplicate_of(comparison_text(normalize_text(items[i])),
                          comparison_text(normalize_text(items[j])))

\* C29: the instruction de-duplication returns at least one element for every input list,
\* and the single sentinel 'Instructions not available.' when every input step is
\* filtered out as too short or as a duplicate
C29_DedupeNeverEmpty ==
  Deduped =>
    /\ Len(fn.result[1]) >= 1
    /\ (\A i \in 1..Len(fn.items) : FilteredOut(fn.items, i)) => fn.result[1] = <<STEP_Sentinel>>

C29_Witness ==
  /\ Deduped
  /\ Len(fn.items) >= 2
  /\ STEP_Sentinel \notin {fn.items[i] : i \in 1..Len(fn.items)}
  /\ fn.result[1] = <<STEP_Sentinel>>

-----------------------------------------------------------------------------
(* The de-duplicated lists of a success response *)

\* a text as the comparison of the lists reads it: lower case, punctuation left out,
\* runs of white space taken as one space, none at either end
insensitive_text(s) ==
  strip(collapse_spaces(SelectSeq(lower(s), LAMBDA c : c \in Letters \cup Digits \cup Spaces)))

\* no two entries of the list are the same text under that comparison
NoTwoEqual(items) ==
  \A i \in 1..Len(items), j \in 1..Len(items) :
    i # j => insensitive_text(items[i]) # insensitive_text(items[j])

\* C30: in every success response of the finalizer no two ingredient entries are equal and
\* no two instruction entries are equal, when compared ignoring letter case, whitespace
\* differences and punctuation
C30_NoEqualEntries ==
  (Finalized /\ fn.result[1].kind = "recipe") =>
    NoTwoEqual(fn.result[1].ingredients) /\ NoTwoEqual(fn.result[1].instructions)


-----------------------------------------------------------------------------
(* The handler on a page that parses to a short complete recipe *)

\* the request came with its HTML, the parse gave a valid title, 3 ingredients, 3
\* instructions and no image, the generative tier is disabled, and the request is answered
DeterministicOnlyCase ==
  /\ Responded
  /\ calls # <<>> /\ calls[1] = "deterministic"
  /\ ~cfg.ai_enabled
  /\ deterministic_result # None
  /\ is_valid_title(deterministic_result[1].title)
  /\ Len(deterministic_result[1].ingredients) = 3
  /\ Len(deterministic_result[1].instructions) = 3
  /\ deterministic_result[1].image = <<>>

\* the answer the deterministic tier alone gives to such a page
DeterministicOnlyAnswer ==
  /\ response[1].body.kind = "recipe"
  /\ Len(response[1].body.ingredients) = 3
  /\ Len(response[1].body.instructions) = 3
  /\ response[1].body.metadata.tier_used = "deterministic"
  /\ response[1].body.quality_score >= 60000

-----------------------------------------------------------------------------
(* tier_used of a success response *)

\* the returned record holds a list that the external API supplied and the page did not
SpoonContentMerged ==
  /\ spoonacular_result # None /\ deterministic_result # None
  /\ response[1].kind = "finalize"
  /\ \/ /\ response[1].recipe.ingredients = spoonacular_result[1].ingredients
        /\ response[1].recipe.ingredients # deterministic_result[1].ingredients
     \/ /\ response[1].recipe.instructions = spoonacular_result[1].instructions
        /\ response[1].recipe.instructions # deterministic_result[1].instructions

\* the returned record is the outcome of the patch-only merge with the generative result
AiPatchMerged == ai_result # None /\ response[1].kind = "finalize"

\* C32: in every success response metadata.tier_used names the tier that produced the
\* returned record: whenever content from the external API was merged into the returned
\* record, tier_used is not deterministic, and whenever the generative patch was merged
\* in, tier_used is the generative tier
C32_TierUsedNamesProducer ==
  SuccessResponse =>
    /\ SpoonContentMerged => response[1].body.metadata.tier_used # "deterministic"
    /\ AiPatchMerged => response[1].body.metadata.tier_used = "ai_fallback"


-----------------------------------------------------------------------------
(* extract_recipe_data: the order of its extractors *)

\* urlparse(page_url).netloc of an absolute URL: what stands between '//' and the next '/',
\* '?' or '#'
netloc(page_url) ==
  IF Find(page_url, <<"/", "/">>) = 0 THEN <<>>
  ELSE Take(From(page_url, Find(page_url, <<"/", "/">>) + 2),
            SpanNot(From(page_url, Find(page_url, <<"/", "/">>) + 2), 1, {"/", "?", "#"}))

\* the domains of extract_recipe_data that have a parser of their own, and the least
\* number of ingredients that parser has to find for its result to be used
site_parsers ==
  << [name |-> "barefootcontessa", domain |-> <<"b","a","r","e","f","o","o","t","c","o","n","t","e","s","s","a",".","c","o","m">>, least |-> 2],
     [name |-> "foodnetwork", domain |-> <<"f","o","o","d","n","e","t","w","o","r","k",".","c","o","m">>, least |-> 1],
     [name |-> "foodandwine", domain |-> <<"f","o","o","d","a","n","d","w","i","n","e",".","c","o","m">>, least |-> 1],
     [name |-> "loveandlemons", domain |-> <<"l","o","v","e","a","n","d","l","e","m","o","n","s",".","c","o","m">>, least |-> 2] >>

\* the site parsers whose domain is in the netloc of page_url, in the order of the elif chain
parsers_for(page_url) ==
  SelectSeq(site_parsers, LAMBDA p : Contains(lower(netloc(page_url)), p.domain))

\* pages of extract_recipe_data: a page of no listed site, one of each listed site (one
\* with upper-case letters), and a page that names a listed site in its path only
URL_BarefootContessa == <<"h","t","t","p","s",":","/","/","b","a","r","e","f","o","o","t","c","o","n","t","e","s","s","a",".","c","o","m","/","r">>
URL_FoodNetwork == <<"h","t","t","p","s",":","/","/","w","w","w",".","F","o","o","d","N","e","t","w","o","r","k",".","c","o","m","/","r">>
URL_FoodAndWine == <<"h","t","t","p","s",":","/","/","w","w","w",".","f","o","o","d","a","n","d","w","i","n","e",".","c","o","m","/","r">>
URL_LoveAndLemons == <<"h","t","t","p","s",":","/","/","w","w","w",".","l","o","v","e","a","n","d","l","e","m","o","n","s",".","c","o","m","/","r">>
URL_PathOnly == <<"h","t","t","p","s",":","/","/","e","x","a","m","p","l","e",".","c","o","m","/","f","o","o","d","n","e","t","w","o","r","k",".","c","o","m">>

ExtractURLs ==
  {URL, URL_BarefootContessa, URL_FoodNetwork, URL_FoodAndWine, URL_LoveAndLemons, URL_PathOnly}

\* what the JSON-LD scripts of a page hold: no Recipe object, a Recipe without
\* instructions, a Recipe with fewer than 3 substantial steps, a complete Recipe
JsonLdContents == {"none", "no_instructions", "incomplete", "complete"}

\* the main page behind a print page: the url is no print url, the fetch fails, the page
\* has no complete JSON-LD Recipe, it has one
MainPages == {"same_url", "fetch_failed", "no_json_ld", "json_ld"}

\* the largest number of ingredients a site parser finds
MaxSiteIngredients == 2

ExtractorStartsAt(u, src, ld, main, n, sections) ==
  [op |-> "extract_recipe_data", url |-> u, html_source |-> src, json_ld |-> ld,
   main_page |-> main, site_ingredients |-> n, print_sections |-> sections,
   at |-> "json_ld", json_ld_instructions_for_dedup |-> FALSE, sections_raw |-> FALSE,
   ran |-> <<>>, result |-> None]

InitExtract ==
  /\ HandlerIdle
  /\ \E u \in ExtractURLs, src \in {"main", "print"}, ld \in JsonLdContents, main \in MainPages,
        n \in 0..MaxSiteIngredients, sections \in BOOLEAN :
       fn = ExtractorStartsAt(u, src, ld, main, n, sections)

ExtractingAt(place) == fn.op = "extract_recipe_data" /\ fn.at = place

\* extract_recipe_data returns the record that the extractor named source built
ExtractReturn(f, source) == [f EXCEPT !.at = "done", !.result = Some(source)]

\* the JSON-LD pass: skipped on the domains with a parser of their own; a complete
\* Recipe is returned, the steps of an incomplete one are kept for de-duplication
JsonLdPass ==
  /\ ExtractingAt("json_ld")
  /\ fn' = IF parsers_for(fn.url) # <<>> THEN [fn EXCEPT !.at = "main_page"]
           ELSE IF fn.json_ld = "complete"
             THEN ExtractReturn([fn EXCEPT !.ran = Append(@, "json_ld")], "json_ld")
           ELSE [fn EXCEPT !.ran = Append(@, "json_ld"), !.at = "main_page",
                           !.json_ld_instructions_for_dedup = (fn.json_ld = "incomplete")]
  /\ HandlerUnchanged

\* the main-page fallback of a print page that gave no JSON-LD steps
MainPageJsonLd ==
  /\ ExtractingAt("main_page")
  /\ fn' = IF fn.html_source = "print" /\ ~fn.json_ld_instructions_for_dedup
              /\ fn.main_page # "same_url"
             THEN IF fn.main_page = "json_ld"
                    THEN ExtractReturn([fn EXCEPT !.ran = Append(@, "main_page_json_ld")],
                                       "main_page_json_ld")
                  ELSE IF fn.main_page = "no_json_ld"
                    THEN [fn EXCEPT !.ran = Append(@, "main_page_json_ld"), !.at = "print"]
                  ELSE [fn EXCEPT !.at = "print"]
           ELSE [fn EXCEPT !.at = "print"]
  /\ HandlerUnchanged

\* the section extractors of a print page
PrintSections ==
  /\ ExtractingAt("print")
  /\ fn' = IF fn.html_source = "print"
             THEN [fn EXCEPT !.ran = Append(@, "print_sections"), !.at = "html",
                             !.sections_raw = fn.print_sections]
           ELSE [fn EXCEPT !.at = "html"]
  /\ HandlerUnchanged

\* the extractors of the generic branch: the sections of a print page when there are
\* some, else extract_ingredients and extract_instructions
generic_extractors(f) == IF f.sections_raw THEN <<"generic_fields">> ELSE <<"generic">>

\* the elif chain over the domains: the parser of the site when it finds enough
\* ingredients, else the generic extractors
HtmlExtractors ==
  /\ ExtractingAt("html")
  /\ fn' = IF parsers_for(fn.url) # <<>>
             THEN IF fn.site_ingredients >= parsers_for(fn.url)[1].least
                    THEN ExtractReturn([fn EXCEPT !.ran = @ \o <<parsers_for(fn.url)[1].name,
                                                                 "generic_fields">>],
                                       parsers_for(fn.url)[1].name)
                  ELSE ExtractReturn([fn EXCEPT !.ran = @ \o <<parsers_for(fn.url)[1].name,
                                                               "generic">>], "generic")
           ELSE ExtractReturn([fn EXCEPT !.ran = @ \o generic_extractors(fn)],
                              IF fn.sections_raw THEN "print_sections" ELSE "generic")
  /\ HandlerUnchanged

NextExtract == JsonLdPass \/ MainPageJsonLd \/ PrintSections \/ HtmlExtractors

SpecExtract == InitExtract /\ [][NextExtract]_vars

\* the extractors that read the HTML of the page: the site parsers and the generic ones
HtmlExtractorNames ==
  {site_parsers[k].name : k \in 1..Len(site_parsers)}
    \cup {"generic", "generic_fields", "print_sections"}

\* C33: for every web request that reaches HTML parsing, whatever the page's domain, the
\* structured-data (JSON-LD) extractor is run before any site-specific or generic HTML
\* extractor, and its result is the first candidate evaluated
C33_JsonLdRunsFirst ==
  fn.op = "extract_recipe_data" =>
    \A i \in 1..Len(fn.ran) :
      fn.ran[i] \in HtmlExtractorNames => fn.ran[1] = "json_ld"


-----------------------------------------------------------------------------
(* The two merges on records that are Python dicts: what a merge writes, and where *)

\* a record is a dict whose 'metadata' value is a reference to another dict; heap maps a
\* reference to the dict it names. "": the record has no 'metadata' key
MetadataRefs == {"base.metadata", "other.metadata", "merged.metadata"}

\* the record as a reader of the dict sees it
read(record, ref, heap) ==
  [record EXCEPT !.metadata = IF ref = "" THEN EmptyMetadata ELSE heap[ref]]

\* list lengths of the base records of the merges
FrameShapes == {<<0, 0>>, <<2, 1>>, <<3, 3>>}

FrameBases ==
  {DetRecipe(T_Pasta, s[1], s[2], img, NoneVal, NoTimes) : s \in FrameShapes, img \in {<<>>, IMG_Https}}

\* confidences of the base record: low, medium and high on every field
FrameConfidences ==
  {[title |-> c, image |-> c, ingredients |-> c, instructions |-> c, servings |-> c,
    total_time |-> c] : c \in {0, 600, 900}}

\* a merge is about to run on base and other_record; has_metadata: base has a
\* 'metadata' key
MergeStart(op, base, other_record, confidences, has_metadata) ==
  [op |-> op, base |-> base, other |-> other_record, base_confidences |-> confidences,
   metadata_of |-> [base |-> IF has_metadata THEN "base.metadata" ELSE "",
                    other |-> "other.metadata", merged |-> ""],
   heap |-> [r \in MetadataRefs |->
               IF r = "base.metadata" /\ has_metadata THEN base.metadata
               ELSE IF r = "other.metadata" THEN other_record.metadata ELSE EmptyMetadata],
   result |-> None]

InitMergeFrame ==
  /\ HandlerIdle
  /\ \/ \E b \in FrameBases, s \in SpoonData, has_metadata \in BOOLEAN :
          fn = MergeStart("merge_spoonacular_results",
                          IF has_metadata THEN b ELSE [b EXCEPT !.metadata = EmptyMetadata],
                          s, NoConfidences, has_metadata)
     \/ \E b \in FrameBases, a \in {AiValid, AiInvalidTitle}, c \in FrameConfidences,
           has_metadata \in BOOLEAN :
          fn = MergeStart("merge_ai_results_patch_only",
                          IF has_metadata THEN b ELSE [b EXCEPT !.metadata = EmptyMetadata],
                          a, c, has_metadata)

\* merged = deterministic_result.copy() copies the keys and keeps the reference to the
\* metadata dict; merged['metadata']['full_recipe'] = ... writes to the dict that
\* reference names, a new one only when the copy has no 'metadata' key
AdditiveMergeFrame ==
  /\ fn.op = "merge_spoonacular_results"
  /\ fn.result = None
  /\ LET merged == merge_spoonacular_results(fn.base, fn.other)
         ref    == IF fn.metadata_of.base = "" THEN "merged.metadata" ELSE fn.metadata_of.base
     IN fn' = [fn EXCEPT !.result = Some(merged),
                         !.metadata_of.merged = ref,
                         !.heap[ref] = merged.metadata]
  /\ HandlerUnchanged

\* merged = base_result.copy(); the patch-only merge assigns keys of the copy only
PatchMergeFrame ==
  /\ fn.op = "merge_ai_results_patch_only"
  /\ fn.result = None
  /\ fn' = [fn EXCEPT !.result = Some(merge_ai_results_patch_only(fn.base, fn.other,
                                                                  fn.base_confidences)),
                      !.metadata_of.merged = fn.metadata_of.base]
  /\ HandlerUnchanged

NextMergeFrame == AdditiveMergeFrame \/ PatchMergeFrame

SpecMergeFrame == InitMergeFrame /\ [][NextMergeFrame]_vars

\* a merge has returned
MergeReturned ==
  fn.op \in {"merge_spoonacular_results", "merge_ai_results_patch_only"} /\ fn.result # None

\* the input reads as it did when the merge was called
BaseUnchanged == read(fn.base, fn.metadata_of.base, fn.heap) = fn.base
OtherUnchanged == read(fn.other, fn.metadata_of.other, fn.heap) = fn.other

\* C34: both merge operations (additive and patch-only) return a new record and leave
\* both input records unchanged, including the inputs' nested metadata; after a merge the
\* base record reads exactly as it did before the merge
C34_MergesLeaveInputsUnchanged == MergeReturned => BaseUnchanged /\ OtherUnchanged

\* C36: a record that the video extractor accepts and returns under its relaxed validation
\* (the minimal case of 1 ingredient and 1 instruction included) is not rejected by the
\* finalizer afterwards: the request of a returned record ends in a success response
C36_AcceptedVideoRecordSucceeds ==
  (pc = "done" /\ ExtractorReturned) => response[1].body.kind = "recipe"

\* C38: when the record entering the finalizer has an instruction list, the instruction
\* list of the success response is not empty (it holds a step or the sentinel): the
\* cleaning after the de-duplication (watermarks, credits) does not leave it empty
C38_InstructionsNeverEmpty ==
  (Finalized /\ fn.result[1].kind = "recipe") => fn.result[1].instructions # <<>>

-----------------------------------------------------------------------------
(* The scraper-first handlers (lambda_function_aws_pandas.py, lambda_function_minimal_v142.py) *)

ScraperVariants == {"aws_pandas", "minimal_v142"}

URL_YouTube == <<"h","t","t","p","s",":","/","/","m",".","Y","o","u","T","u","b","e",".","c","o","m","/","w","a","t","c","h","?","v","=","r">>
URL_TikTok == <<"h","t","t","p","s",":","/","/","v","m",".","t","i","k","t","o","k",".","c","o","m","/","r">>

youtube_domains ==
  << <<"y","o","u","t","u","b","e",".","c","o","m">>, <<"y","o","u","t","u",".","b","e">>,
     <<"m",".","y","o","u","t","u","b","e",".","c","o","m">> >>
tiktok_domains ==
  << <<"t","i","k","t","o","k",".","c","o","m">>, <<"v","m",".","t","i","k","t","o","k",".","c","o","m">>,
     <<"t",".","t","i","k","t","o","k",".","c","o","m">> >>

is_youtube_url(page_url) == page_url # <<>> /\ ContainsAny(lower(page_url), youtube_domains)
is_tiktok_url(page_url) == page_url # <<>> /\ ContainsAny(lower(page_url), tiktok_domains)

MIN_HTML_BYTES == 20000

\* the html of a request body or of a fetch: its length and whether '<html' and '<script'
\* occur in it; None: no html
Page(bytes, html_tag, script_tag) ==
  Some([bytes |-> bytes, html_tag |-> html_tag, script_tag |-> script_tag])

\* `if html`
has_html(page) == page # None /\ page[1].bytes > 0

needs_full_fetch(page) ==
  IF ~has_html(page) THEN TRUE
  ELSE IF page[1].bytes < MIN_HTML_BYTES THEN TRUE
  ELSE ~page[1].html_tag \/ ~page[1].script_tag

\* what fetch_full_html returns with status 200
FetchedPages ==
  {Page(0, FALSE, FALSE), Page(MIN_HTML_BYTES - 1, TRUE, TRUE), Page(MIN_HTML_BYTES, TRUE, TRUE)}

\* the html of the request body
BodyPages == {None} \cup FetchedPages \cup {Page(MIN_HTML_BYTES, TRUE, FALSE)}

\* the value of result.instructions() or of the answer's 'instructions': None, a str, a
\* list of str, or a value of another type
NoInstructions == [t |-> "none", v |-> <<>>]
InstructionText(s) == [t |-> "str", v |-> s]
InstructionList(items) == [t |-> "list", v |-> items]
InstructionOther == [t |-> "other", v |-> <<>>]

RECURSIVE join_lines(_)
join_lines(items) ==
  IF items = <<>> THEN <<>>
  ELSE IF Len(items) = 1 THEN items[1]
  ELSE items[1] \o <<"\n">> \o join_lines(Tail(items))

\* [s.strip() for s in instructions.split('\n') if s.strip()]
stripped_lines(s) ==
  SelectSeq([i \in 1..Len(split_lines(s)) |-> strip(split_lines(s)[i])], LAMBDA line : line # <<>>)

\* len(meaningful) >= 3 for a list of str
three_meaningful(items) ==
  Len(SelectSeq(items, LAMBDA inst : Len(strip(inst)) > 20)) >= 3

\* has_meaningful_instructions of lambda_function_aws_pandas.py
has_meaningful_instructions(instructions) ==
  IF instructions.t = "none" \/ instructions.v = <<>> THEN FALSE
  ELSE IF instructions.t = "str" THEN three_meaningful(stripped_lines(instructions.v))
  ELSE IF instructions.t # "list" THEN FALSE
  ELSE three_meaningful(instructions.v)

\* has_meaningful_instructions of lambda_function_minimal_v142.py
has_meaningful_instructions_v142(instructions) ==
  IF instructions.t # "list" \/ instructions.v = <<>> THEN FALSE
  ELSE three_meaningful(instructions.v)

\* the handlers' conversion of instructions to a list
instructions_list_of(instructions) ==
  IF instructions.t = "str" THEN stripped_lines(instructions.v)
  ELSE IF instructions.t = "list" THEN instructions.v
  ELSE <<>>

\* what the handler of a variant tests after result.instructions(): minimal_v142 converts
\* to a list first
meaningful_in(variant, instructions) ==
  IF variant = "aws_pandas" THEN has_meaningful_instructions(instructions)
  ELSE has_meaningful_instructions_v142(InstructionList(instructions_list_of(instructions)))

InstructionValues ==
  {NoInstructions, InstructionOther,
   InstructionText(<<>>),
   InstructionText(join_lines(Steps(2, STEP_Prefix, STEP_Suffix))),
   InstructionText(join_lines(Steps(3, STEP_Prefix, STEP_Suffix))),
   InstructionList(<<>>),
   InstructionList(Steps(2, STEP_Prefix, STEP_Suffix) \o <<STEP_Bake>>),
   InstructionList(Steps(3, STEP_Prefix, STEP_Suffix))}

\* one pass of the scraper: raises names the call that raises ("scrape": scrape_me,
\* scrape_url or result.instructions(), "fields": one of result.title() .. result.author(),
\* "nutrition": result.nutrition(), "": none)
ScraperOutcomes ==
  {[raises |-> "scrape", instructions |-> NoInstructions]}
  \cup {[raises |-> r, instructions |-> i] :
          r \in {"", "fields", "nutrition"}, i \in InstructionValues}

\* the answer of the completion request as call_ai_fallback_simple returns it: None,
\* a JSON value that is no object, or an object with (or without) 'instructions'
AiAnswers ==
  {None, Some([object |-> FALSE, instructions |-> NoInstructions])}
  \cup {Some([object |-> TRUE, instructions |-> i]) : i \in InstructionValues}

ScraperResponse(status, body) == [statusCode |-> status, body |-> body]

ErrorBody(message) == [kind |-> "error", error |-> message]

RecipeBody(source, instructions, tier, ai_ran) ==
  [kind |-> "recipe", source |-> source, instructions |-> instructions,
   metadata |-> [tier_used |-> tier, ai_ran |-> ai_ran]]

InitScraper ==
  /\ HandlerIdle
  /\ fn \in [op : {"lambda_handler"}, variant : ScraperVariants, DISABLE_AI : BOOLEAN,
             OPENAI_API_KEY : BOOLEAN, url : {<<>>, URL, URL_YouTube, URL_TikTok},
             html : BodyPages, at : {"event"}, ran : {<<>>}, returned : {<<>>},
             raised : {<<>>}, result : {None}]

\* the event is parsed; no url: 400; aws_pandas leaves video urls at once
ParseEvent ==
  /\ fn.op = "lambda_handler" /\ fn.at = "event" /\ fn.result = None
  /\ fn' = IF fn.url = <<>>
             THEN [fn EXCEPT !.result = Some(ScraperResponse(400, ErrorBody("No URL provided")))]
           ELSE IF fn.variant = "aws_pandas" /\ is_youtube_url(fn.url)
             THEN [fn EXCEPT !.result = Some(ScraperResponse(200, ErrorBody("YouTube URLs not supported")))]
           ELSE IF fn.variant = "aws_pandas" /\ is_tiktok_url(fn.url)
             THEN [fn EXCEPT !.result = Some(ScraperResponse(200, ErrorBody("TikTok URLs not supported")))]
           ELSE [fn EXCEPT !.at = "tier0"]
  /\ HandlerUnchanged

\* the pass returns from inside its try block: the instructions are meaningful and no
\* call that builds the response raises (aws_pandas catches what result.nutrition() raises)
pass_returns(variant, outcome) ==
  /\ outcome.raises # "scrape"
  /\ meaningful_in(variant, outcome.instructions)
  /\ outcome.raises # "fields"
  /\ (outcome.raises = "nutrition" => variant = "aws_pandas")

\* the state after one scraper pass with this outcome; next_at: where the handler goes on
\* when the pass did not return; raised: what was raised while a response was built
after_pass(f, outcome, source, next_at) ==
  [f EXCEPT !.ran = Append(@, "scrape"),
            !.returned = IF outcome.raises = "scrape" THEN @ ELSE Append(@, outcome.instructions),
            !.raised = IF outcome.raises = "" \/ ~meaningful_in(f.variant, outcome.instructions)
                         THEN @ ELSE Append(@, outcome.raises),
            !.at = IF pass_returns(f.variant, outcome) THEN @ ELSE next_at,
            !.result = IF pass_returns(f.variant, outcome)
                         THEN Some(ScraperResponse(200,
                                RecipeBody(source, instructions_list_of(outcome.instructions),
                                           "tier0", 0)))
                       ELSE @]

\* STEP 1: recipe-scrapers runs first
Tier0 ==
  /\ fn.op = "lambda_handler" /\ fn.at = "tier0" /\ fn.result = None
  /\ \E outcome \in ScraperOutcomes :
       fn' = after_pass(fn, outcome, "recipe-scrapers-tier0", "full_fetch")
  /\ HandlerUnchanged

\* STEP 2: an html snippet that needs a full fetch: fetch, and on success scrape again
FullFetchGuard ==
  /\ fn.op = "lambda_handler" /\ fn.at = "full_fetch" /\ fn.result = None
  /\ IF has_html(fn.html) /\ needs_full_fetch(fn.html)
       THEN \/ fn' = [fn EXCEPT !.ran = Append(@, "fetch"), !.at = "ai"]
            \/ \E fetched \in FetchedPages, outcome \in ScraperOutcomes :
                 fn' = IF has_html(fetched)
                         THEN after_pass([fn EXCEPT !.ran = Append(@, "fetch"), !.html = fetched],
                                         outcome, "recipe-scrapers-tier0-full-fetch", "ai")
                       ELSE [fn EXCEPT !.ran = Append(@, "fetch"), !.at = "ai"]
     ELSE fn' = [fn EXCEPT !.at = "ai"]
  /\ HandlerUnchanged

\* call_ai_fallback_simple sends its request: the kill switch is off and there is a key
sends_request(f) == ~f.DISABLE_AI /\ f.OPENAI_API_KEY

\* the handler's response to what call_ai_fallback_simple returned
ai_response(answer) ==
  IF answer = None THEN ScraperResponse(500, ErrorBody("Recipe extraction failed"))
  ELSE IF ~answer[1].object THEN ScraperResponse(500, ErrorBody("Parsing failed"))
  ELSE IF /\ answer[1].instructions.t # "none"
          /\ (answer[1].instructions.v # <<>> \/ answer[1].instructions.t = "other")
          /\ has_meaningful_instructions(InstructionList(instructions_list_of(answer[1].instructions)))
    THEN ScraperResponse(200, RecipeBody("ai-fallback",
                                         instructions_list_of(answer[1].instructions), "ai", 1))
  ELSE ScraperResponse(500, ErrorBody("Recipe extraction failed"))

\* STEP 3: the fallback, then 'All methods failed'
AiFallback ==
  /\ fn.op = "lambda_handler" /\ fn.at = "ai" /\ fn.result = None
  /\ \E fetched \in {None} \cup FetchedPages, answer \in AiAnswers :
       LET page   == IF has_html(fn.html) THEN fn.html ELSE fetched
           ran    == IF has_html(fn.html) THEN fn.ran ELSE Append(fn.ran, "fetch")
           called == has_html(page) /\ (fn.variant = "aws_pandas" => ~fn.DISABLE_AI)
       IN fn' = [fn EXCEPT
                   !.html = page,
                   !.at = "done",
                   !.ran = ran \o (IF called THEN <<"call_ai_fallback_simple">> ELSE <<>>)
                               \o (IF called /\ sends_request(fn) THEN <<"request">> ELSE <<>>),
                   !.result = Some(IF called /\ sends_request(fn) THEN ai_response(answer)
                                   ELSE ScraperResponse(500, ErrorBody("Recipe extraction failed")))]
  /\ HandlerUnchanged

NextScraper == ParseEvent \/ Tier0 \/ FullFetchGuard \/ AiFallback

SpecScraper == InitScraper /\ [][NextScraper]_vars

\* how often a call occurs in the request
Count(calls_made, name) == Len(SelectSeq(calls_made, LAMBDA c : c = name))

\* a scraper pass of the request returned meaningful instructions
ScraperReturnedMeaningful ==
  \E i \in 1..Len(fn.returned) : meaningful_in(fn.variant, fn.returned[i])

\* the request to the generative model was sent
FallbackInvoked == Count(fn.ran, "request") >= 1

ScraperFirstResponded == fn.op = "lambda_handler" /\ fn.result # None

\* C35: in the scraper-first handlers the generative fallback is never invoked in a
\* request where a scraper pass (the first or the retry after the full fetch) returned
\* meaningful instructions, and never when DISABLE_AI is set; a response of the scraper
\* tier reports ai_ran = 0 and a response of the fallback reports ai_ran = 1; the scraper
\* runs at most twice and the fallback at most once per request
C35_FallbackOnlyWithoutInstructions ==
  fn.op = "lambda_handler" =>
    /\ FallbackInvoked => ~ScraperReturnedMeaningful /\ ~fn.DISABLE_AI
    /\ ScraperFirstResponded /\ fn.result[1].body.kind = "recipe" =>
         /\ fn.result[1].body.metadata.tier_used = "tier0" => fn.result[1].body.metadata.ai_ran = 0
         /\ fn.result[1].body.metadata.tier_used = "ai" => fn.result[1].body.metadata.ai_ran = 1
         /\ fn.result[1].body.metadata.tier_used \in {"tier0", "ai"}
    /\ Count(fn.ran, "scrape") <= 2
    /\ Count(fn.ran, "request") <= 1

-----------------------------------------------------------------------------
(* extract_ingredients on a page, and the score of the record it fills *)

ingredient_skip_words ==
  <<
   <<"i","n","g","r","e","d","i","e","n","t","s">>, <<"d","i","r","e","c","t","i","o","n","s">>,
   <<"i","n","s","t","r","u","c","t","i","o","n","s">>, <<"m","e","t","h","o","d">>,
   <<"b","r","e","a","k","f","a","s","t">>, <<"d","i","n","n","e","r">>, <<"l","u","n","c","h">>,
   <<"h","e","a","l","t","h","y">>, <<"a","p","p","e","t","i","z","e","r","s">>,
   <<"s","i","d","e"," ","d","i","s","h","e","s">>,
   <<"m","a","i","n"," ","d","i","s","h","e","s">>, <<"s","e","e"," ","a","l","l">>,
   <<"c","h","i","c","k","e","n">>, <<"t","u","r","k","e","y">>, <<"b","e","e","f">>,
   <<"p","o","r","k">>, <<"s","e","a","f","o","o","d">>,
   <<"v","e","g","e","t","a","r","i","a","n">>, <<"v","e","g","a","n">>,
   <<"g","l","u","t","e","n","-","f","r","e","e">>, <<"d","a","i","r","y","-","f","r","e","e">>,
   <<"l","o","w","-","c","a","r","b">>, <<"k","e","t","o">>, <<"p","a","l","e","o">>,
   <<"c","a","t","e","g","o","r","i","e","s">>, <<"t","a","g","s">>,
   <<"c","u","i","s","i","n","e">>, <<"d","i","f","f","i","c","u","l","t","y">>,
   <<"c","o","o","k"," ","t","i","m","e">>, <<"p","r","e","p"," ","t","i","m","e">>,
   <<"t","o","t","a","l"," ","t","i","m","e">>, <<"s","e","r","v","i","n","g","s">>,
   <<"y","i","e","l","d">>, <<"n","u","t","r","i","t","i","o","n">>,
   <<"c","a","l","o","r","i","e","s">>, <<"f","a","t">>, <<"p","r","o","t","e","i","n">>,
   <<"c","a","r","b","s">>, <<"f","i","b","e","r">>, <<"s","u","g","a","r">>,
   <<"s","o","d","i","u","m">>, <<"c","h","o","l","e","s","t","e","r","o","l">>,
   <<"l","i","n","d","a"," ","c">>, <<"b","y"," ","l","i","n","d","a">>,
   <<"s","u","b","m","i","t","t","e","d"," ","b","y">>, <<"r","e","c","i","p","e"," ","b","y">>,
   <<"a","u","t","h","o","r">>
  >>

measure_indicators ==
  <<
   <<"c","u","p">>, <<"t","a","b","l","e","s","p","o","o","n">>,
   <<"t","e","a","s","p","o","o","n">>, <<"p","o","u","n","d">>, <<"o","u","n","c","e">>,
   <<"g","r","a","m">>, <<"m","l">>, <<"t","b","s","p">>, <<"t","s","p">>, <<"l","b">>,
   <<"o","z">>
  >>

ingredient_words ==
  <<
   <<"f","l","o","u","r">>, <<"s","u","g","a","r">>, <<"s","a","l","t">>,
   <<"p","e","p","p","e","r">>, <<"o","i","l">>, <<"b","u","t","t","e","r">>,
   <<"m","i","l","k">>, <<"e","g","g">>, <<"c","h","e","e","s","e">>, <<"m","e","a","t">>,
   <<"c","h","i","c","k","e","n">>, <<"b","e","e","f">>, <<"f","i","s","h">>,
   <<"v","e","g","e","t","a","b","l","e">>, <<"h","e","r","b">>, <<"s","p","i","c","e">>
  >>

ING_CupSugar == <<"1"," ","c","u","p"," ","s","u","g","a","r">>
ING_Pinch == <<"a"," ","p","i","n","c","h"," ","o","f"," ","s","a","f","f","r","o","n">>
ING_Sentence == <<"a"," ","g","o","o","d"," ","p","i","n","c","h"," ","o","f"," ","s","a","f","f","r","o","n"," ","t","h","r","e","a","d","s"," ","f","r","o","m"," ","t","h","e"," ","m","a","r","k","e","t"," ","t","o","d","a","y">>

\* bound of the pages: the most ingredient elements on a page
MaxPageItems == 22

\* len(text.split())
word_count(text) ==
  Cardinality({i \in 1..Len(text) : text[i] \notin Spaces /\ (i = 1 \/ text[i - 1] \in Spaces)})

\* the texts in the order of their first occurrence (`if text not in seen_ingredients`)
first_occurrences(items) ==
  SelectSeq([i \in 1..Len(items) |-> IF \E j \in 1..(i - 1) : items[j] = items[i] THEN <<>> ELSE items[i]],
            LAMBDA text : text # <<>>)

\* the test of extract_ingredients on the text of an element found by a selector
looks_like_ingredient(text) ==
  /\ Len(text) > 3 /\ Len(text) < 200
  /\ ~ContainsAny(lower(text), ingredient_skip_words)
  /\ \/ ContainsAny(lower(text), measure_indicators)
     \/ ContainsAny(lower(text), ingredient_words)
     \/ word_count(text) <= 8

\* the test of extract_ingredients on the text of any list item
looks_like_list_item(text) ==
  Len(text) > 5 /\ Len(text) < 200 /\ ~ContainsAny(lower(text), ingredient_skip_words)

\* the ingredients one selector yields on the elements it finds
selected_ingredients(elements) ==
  first_occurrences(SelectSeq([i \in 1..Len(elements) |-> strip(elements[i])], looks_like_ingredient))

\* the ingredients of the first selector that yields some, else of the list items
uncapped_ingredients(page) ==
  IF \E k \in 1..Len(page.selected) : selected_ingredients(page.selected[k]) # <<>>
    THEN selected_ingredients(
           page.selected[Least({k \in 1..Len(page.selected) :
                                  selected_ingredients(page.selected[k]) # <<>>})])
  ELSE first_occurrences(SelectSeq([i \in 1..Len(page.li) |-> strip(page.li[i])],
                                   looks_like_list_item))

\* extract_ingredients(soup): ingredients[:20]
extract_ingredients(page) == Take(uncapped_ingredients(page), 20)

\* the elements of a page with n ingredient items and one more element
PageElements(n, extra) ==
  Ingredients(n, ING_Suffix)
    \o (CASE extra = "duplicate" -> IF n >= 1 THEN <<Ingredients(n, ING_Suffix)[1]>> ELSE <<>>
          [] extra = "skip_word" -> <<ING_CupSugar>>
          [] extra = "short_phrase" -> <<ING_Pinch>>
          [] extra = "sentence" -> <<ING_Sentence>>
          [] OTHER -> <<>>)

\* a page whose elements are found by selector `place` of the 10 (0: by none of them) and
\* are list items
IngredientPage(n, extra, place) ==
  [selected |-> [k \in 1..10 |-> IF k = place THEN PageElements(n, extra) ELSE <<>>],
   li |-> PageElements(n, extra)]

IngredientPages ==
  {IngredientPage(n, extra, place) :
     n \in 0..MaxPageItems,
     extra \in {"", "duplicate", "skip_word", "short_phrase", "sentence"},
     place \in {0, 1, 8}}

\* the result dict of extract_recipe_data on a page of another site, with 3 steps found
GenericRecipe(ingredients) ==
  [DetRecipe(T_Pasta, 0, 3, IMG_Https, 4, PageTimes)
     EXCEPT !.ingredients = ingredients, !.metadata.full_recipe = Len(ingredients) >= 3]

InitIngredients ==
  /\ HandlerIdle
  /\ fn \in [op : {"extract_ingredients"}, page : IngredientPages, ingredients : {None},
             result : {None}]

\* ingredients = extract_ingredients(soup)
ExtractIngredients ==
  /\ fn.op = "extract_ingredients"
  /\ fn.ingredients = None
  /\ fn' = [fn EXCEPT !.ingredients = Some(extract_ingredients(fn.page))]
  /\ HandlerUnchanged

\* quality_score = calculate_quality_score(recipe_data) on the record of the page
ScoreExtracted ==
  /\ fn.op = "extract_ingredients"
  /\ fn.ingredients # None
  /\ fn.result = None
  /\ fn' = [fn EXCEPT !.result = Some(calculate_quality_score(GenericRecipe(fn.ingredients[1])))]
  /\ HandlerUnchanged

NextIngredients == ExtractIngredients \/ ScoreExtracted

SpecIngredients == InitIngredients /\ [][NextIngredients]_vars

\* the record of a page that has 20 ingredients or more has been scored
ManyIngredientsScored ==
  /\ fn.op = "extract_ingredients"
  /\ fn.result # None
  /\ Len(uncapped_ingredients(fn.page)) >= 20

\* C37: the limit of the generic ingredient extractor does not by itself cause the
\* hallucination veto: a page with 20 or more ingredient items, extracted and cut to the
\* limit, is not scored 0.0 only because the list then has exactly 20 entries
C37_CapDoesNotVeto ==
  ManyIngredientsScored =>
    (fn.result[1] = 0 => is_likely_hallucination_no_padding_rule(GenericRecipe(fn.ingredients[1])))

=============================================================================
